---- MODULE Spec2Model ----
(***************************************************************************)
(* SuperSelector: the execution engine, the command registry, the built-in *)
(* commands, the result cache and the SuperSelector facade, as a state     *)
(* machine.  One caller at a time runs SuperSelector.execute; every await  *)
(* of the engine is a step of its own.                                     *)
(***************************************************************************)
EXTENDS Integers, Sequences, FiniteSets, TLC

(***************************************************************************)
(* Bounds of the model.                                                    *)
(***************************************************************************)
MaxLen == 2        \* longest pipeline (number of stages)
MaxCalls == 2      \* execute calls per behaviour
MaxTime == 2       \* the clock runs from 0 to MaxTime
TTL == 1           \* the configured cacheTTL, in clock ticks
MaxInput == 4      \* longest generated selector string, in characters
MaxEdits == 1      \* whitespace edits of a selector string per behaviour
MaxIndex == 2      \* index accesses run from -(MaxIndex + 1) to MaxIndex

(***************************************************************************)
(* Values.  Every JavaScript value is a record of one shape:               *)
(*   t     the kind (null, undefined, string, element, document, object,   *)
(*         array, number, boolean)                                         *)
(*   s     the text of a string, or the name of an element or object       *)
(*   n     the value of a number                                           *)
(*   items the members of an array                                         *)
(***************************************************************************)
Null == [t |-> "null", s |-> "", n |-> 0, items |-> <<>>]
Undefined == [t |-> "undefined", s |-> "", n |-> 0, items |-> <<>>]
Str(x) == [t |-> "string", s |-> x, n |-> 0, items |-> <<>>]
Num(k) == [t |-> "number", s |-> "", n |-> k, items |-> <<>>]
Bool(b) == [t |-> "boolean", s |-> IF b THEN "true" ELSE "false", n |-> 0, items |-> <<>>]
El(x) == [t |-> "element", s |-> x, n |-> 0, items |-> <<>>]
Doc == [t |-> "document", s |-> "document", n |-> 0, items |-> <<>>]
Arr(xs) == [t |-> "array", s |-> "", n |-> 0, items |-> xs]

IsNullish(v) == v.t \in {"null", "undefined"}
IsArray(v) == v.t = "array"
IsNode(v) == v.t \in {"element", "document"}

\* typeof v
TypeOf(v) ==
    CASE v.t = "undefined" -> "undefined"
      [] v.t = "string" -> "string"
      [] v.t = "number" -> "number"
      [] v.t = "boolean" -> "boolean"
      [] OTHER -> "object"

\* `item && typeof item === "object"`
IsObject(v) == ~IsNullish(v) /\ TypeOf(v) = "object"

(***************************************************************************)
(* The host tree the pipelines run against (the DOM of the tests):         *)
(*   <ul id="list"><li data-extra="x"> Item 1 </li><li>Item 2</li></ul>    *)
(* li1 carries an own property `extra`; li2 has none.                      *)
(***************************************************************************)
Roots == {Doc, El("li2")}

QuerySelectorAll(node, selector) ==
    CASE selector = "li" /\ node \in {Doc, El("list")} -> <<El("li1"), El("li2")>>
      [] selector = "ul" /\ node = Doc -> <<El("list")>>
      [] selector = "ul, li" /\ node = Doc -> <<El("list"), El("li1"), El("li2")>>
      [] selector = "li + li" /\ node \in {Doc, El("list")} -> <<El("li2")>>
      [] OTHER -> <<>>

\* `name in v` for an object v
HasProp(v, name) ==
    \/ v.t = "element" /\ name \in {"textContent", "id", "getAttribute", "nextElementSibling"}
    \/ v.t = "document" /\ name = "textContent"
    \/ v = El("li1") /\ name = "extra"
    \/ v.t = "array" /\ name = "length"

\* v[name] for an object v with `name in v`
ReadProp(v, name) ==
    CASE name = "textContent" /\ v = El("li1") -> Str(" Item 1 ")
      [] name = "textContent" /\ v = El("li2") -> Str("Item 2")
      [] name = "textContent" /\ v = El("list") -> Str(" Item 1 Item 2")
      [] name = "textContent" /\ v = Doc -> Null
      [] name = "id" /\ v = El("list") -> Str("list")
      [] name = "id" -> Str("")
      [] name = "extra" -> Str("x")
      [] name = "nextElementSibling" -> IF v = El("li1") THEN El("li2") ELSE Null
      [] OTHER -> Undefined

\* typeof v[name] === "function", for every v that is not null or undefined
HasMethod(v, name) ==
    \/ v.t = "element" /\ name = "getAttribute"
    \/ v.t \in {"element", "document"} /\ name = "normalize"
    \/ v.t = "string" /\ name \in {"trim", "toLowerCase"}

\* v[name](...args) for HasMethod(v, name)
CallMethod(v, name, args) ==
    CASE name = "getAttribute" ->
            IF args = <<Str("id")>> /\ v = El("list") THEN Str("list") ELSE Null
      [] name = "normalize" -> Undefined
      [] name = "trim" ->
            IF v = Str(" Item 1 ") THEN Str("Item 1")
            ELSE IF v = Str(" Item 1 Item 2") THEN Str("Item 1 Item 2")
            ELSE v
      [] OTHER -> v

(***************************************************************************)
(* Errors.  code is the error's code, kind names its message, at is the    *)
(* stage (1-based) at which the error object was created, and by names the *)
(* command whose registry dispatch wrapped it ("" when unwrapped).         *)
(***************************************************************************)
NoError == [code |-> "", kind |-> "", at |-> 0, by |-> ""]

\* ErrorFactory.execution
ExecutionError(kind, at) == [code |-> "EXECUTION_ERROR", kind |-> kind, at |-> at, by |-> ""]

\* ErrorFactory.validation
ValidationError(kind, at) == [code |-> "VALIDATION_ERROR", kind |-> kind, at |-> at, by |-> ""]

\* ErrorFactory.parse
ParseError(kind) == [code |-> "PARSE_ERROR", kind |-> kind, at |-> 0, by |-> ""]

(***************************************************************************)
(* Configuration: the options the engine reads.                            *)
(***************************************************************************)
Modes == {"throw", "return-null", "return-default"}
DefaultValue == Str("N/A")
MaxDepthDefault == 50

Configs ==
    [errorHandling : Modes, defaultValue : {DefaultValue}, cacheEnabled : BOOLEAN,
     cacheTTL : {TTL}, maxDepth : {MaxDepthDefault, -1}]

\* `config.errorHandling === "return-default" ? config.defaultValue : null`
\* Resolve with return-default treated as return-null.
ResolveNull(config) == Null

\* The value a soft fault yields outside throw mode.
Resolve(config) ==
    IF config.errorHandling = "return-default" THEN config.defaultValue ELSE Null

(***************************************************************************)
(* Commands (the parser's AST nodes), in one record shape.                 *)
(***************************************************************************)
Css(sel) == [type |-> "css-selector", name |-> "css-selector", selector |-> sel,
             args |-> <<>>, index |-> 0]
Prop(p) == [type |-> "property", name |-> p, selector |-> "", args |-> <<>>, index |-> 0]
Idx(k) == [type |-> "array-access", name |-> "array-access", selector |-> "",
           args |-> <<>>, index |-> k]
Fn(f, as) == [type |-> "function", name |-> f, selector |-> "", args |-> as, index |-> 0]

(***************************************************************************)
(* The execution context a handler sees, and what a handler call yields:   *)
(* either a value or a thrown error, with the context's soft-error fields  *)
(* as the handler left them.                                               *)
(***************************************************************************)
Ctx(value, had, soft, config, at) ==
    [currentValue |-> value, hadSoftError |-> had, softError |-> soft,
     config |-> config, at |-> at]

Return(ctx, v) ==
    [thrown |-> FALSE, value |-> v, error |-> NoError,
     had |-> ctx.hadSoftError, soft |-> ctx.softError]

Throw(ctx, e) ==
    [thrown |-> TRUE, value |-> Undefined, error |-> e,
     had |-> ctx.hadSoftError, soft |-> ctx.softError]

\* `if (!context.hadSoftError) { context.hadSoftError = true; context.softError = err }`
\* RecordSoft without the `!context.hadSoftError` guard: the latest fault wins.
RecordSoftLatest(ctx, e) ==
    [ctx EXCEPT !.hadSoftError = TRUE, !.softError = e]

RecordSoft(ctx, e) ==
    IF ctx.hadSoftError THEN ctx
    ELSE [ctx EXCEPT !.hadSoftError = TRUE, !.softError = e]

\* The fault pattern of the built-in commands: record the first soft error,
\* throw `err || context.softError` in throw mode, else return null or the default.
Fault(ctx, e) ==
    LET c2 == RecordSoft(ctx, e)
    IN  IF ctx.config.errorHandling = "throw"
        THEN Throw(c2, c2.softError)
        ELSE Return(c2, Resolve(ctx.config))

\* A fault site that records the soft error but has no throw statement.
FaultNoThrow(ctx, e, v) == Return(RecordSoft(ctx, e), v)

(***************************************************************************)
(* Host string operations, on the strings of the host tree.                *)
(***************************************************************************)
\* hay.includes(needle)
Includes(hay, needle) ==
    \/ needle = ""
    \/ needle = hay
    \/ needle = "Item" /\ hay \in {" Item 1 ", "Item 2", " Item 1 Item 2"}
    \/ needle = "Item 2" /\ hay \in {"Item 2", " Item 1 Item 2"}
    \/ needle = "item" /\ hay \in {" item 1 ", "item 2", " item 1 item 2"}
    \/ needle = "item 2" /\ hay \in {"item 2", " item 1 item 2"}

\* new RegExp(pattern) does not throw
RegexValid(pattern) == pattern # "("

\* new RegExp(pattern).test(text)
RegexTest(pattern, text) ==
    \/ pattern = "^Item" /\ text = "Item 2"
    \/ pattern = "Item" /\ Includes(text, "Item")

\* Number.parseInt(text, 10): nan is TRUE when the result is NaN
ParseInt(text) ==
    CASE text = "0" -> [nan |-> FALSE, n |-> 0]
      [] text = "1" -> [nan |-> FALSE, n |-> 1]
      [] text = "2" -> [nan |-> FALSE, n |-> 2]
      [] text = "3" -> [nan |-> FALSE, n |-> 3]
      [] text = "-1" -> [nan |-> FALSE, n |-> -1]
      [] OTHER -> [nan |-> TRUE, n |-> 0]

RECURSIVE Flatten(_)
Flatten(xss) == IF xss = <<>> THEN <<>> ELSE Head(xss) \o Flatten(Tail(xss))

(***************************************************************************)
(* Built-in commands.  Each takes the context and the argument list and    *)
(* yields a Return or a Throw.                                             *)
(***************************************************************************)
cssSelectorCommand(ctx, args) ==
    LET cv == ctx.currentValue
        selector == args[1].s
    IN  IF IsNode(cv)
        THEN LET elements == QuerySelectorAll(cv, selector)
             IN  IF Len(elements) = 0 THEN Return(ctx, Null)
                 ELSE IF Len(elements) = 1 THEN Return(ctx, elements[1])
                 ELSE Return(ctx, Arr(elements))
        ELSE IF IsArray(cv)
        THEN LET Found(item) ==
                     IF item.t = "element" THEN QuerySelectorAll(item, selector) ELSE <<>>
                 results == Flatten([k \in 1..Len(cv.items) |-> Found(cv.items[k])])
             IN  Return(ctx, IF Len(results) > 0 THEN Arr(results) ELSE Null)
        ELSE Return(ctx, Null)

\* propertyCommand recording no soft error for a collection.
propertyCommandSilent(ctx, args) ==
    LET cv == ctx.currentValue
        propertyName == args[1].s
    IN  IF IsNullish(cv)
        THEN Fault(ctx, ExecutionError("property-on-null", ctx.at))
        ELSE IF IsArray(cv)
        THEN LET results == [k \in 1..Len(cv.items) |->
                                IF IsObject(cv.items[k]) /\ HasProp(cv.items[k], propertyName)
                                THEN ReadProp(cv.items[k], propertyName) ELSE Null]
             IN  IF (\A k \in 1..Len(results) : results[k] = Null) /\ Len(cv.items) > 0
                 THEN Return(ctx, Null)
                 ELSE Return(ctx, IF Len(results) > 0 THEN Arr(results) ELSE Null)
        ELSE IF IsObject(cv) /\ HasProp(cv, propertyName)
        THEN Return(ctx, ReadProp(cv, propertyName))
        ELSE IF TypeOf(cv) \in {"object", "function"}
        THEN Fault(ctx, ExecutionError("property-missing", ctx.at))
        ELSE FaultNoThrow(ctx, ExecutionError("property-on-primitive", ctx.at), Resolve(ctx.config))

propertyCommand(ctx, args) ==
    LET cv == ctx.currentValue
        propertyName == args[1].s
        at == ctx.at
    IN  IF IsNullish(cv)
        THEN Fault(ctx, ExecutionError("property-on-null", at))
        ELSE IF IsArray(cv)
        THEN LET Has(item) == IsObject(item) /\ HasProp(item, propertyName)
                 Pick(item) == IF Has(item) THEN ReadProp(item, propertyName) ELSE Null
                 results == [k \in 1..Len(cv.items) |-> Pick(cv.items[k])]
                 itemHadError ==
                     \E k \in 1..Len(cv.items) : ~Has(cv.items[k]) /\ ~IsNullish(cv.items[k])
                 c2 == IF itemHadError
                       THEN RecordSoft(ctx, ExecutionError("property-missing-on-items", at))
                       ELSE ctx
             IN  IF (\A k \in 1..Len(results) : results[k] = Null) /\ Len(cv.items) > 0
                 THEN Return(c2, Null)
                 ELSE Return(c2, IF Len(results) > 0 THEN Arr(results) ELSE Null)
        ELSE IF IsObject(cv) /\ HasProp(cv, propertyName)
        THEN Return(ctx, ReadProp(cv, propertyName))
        ELSE IF TypeOf(cv) \in {"object", "function"}
        THEN Fault(ctx, ExecutionError("property-missing", at))
        ELSE FaultNoThrow(ctx, ExecutionError("property-on-primitive", at), Resolve(ctx.config))

propertyValidate(args) == Len(args) = 1 /\ TypeOf(args[1]) = "string"

\* arrayAccessCommand without the count-from-the-end rule for negative indexes.
arrayAccessCommandFromStart(ctx, args) ==
    LET cv == ctx.currentValue
        index == args[1].n
    IN  IF IsArray(cv)
        THEN IF index >= 0 /\ index < Len(cv.items)
             THEN Return(ctx, cv.items[index + 1])
             ELSE Fault(ctx, ExecutionError("index-out-of-bounds", ctx.at))
        ELSE Fault(ctx, ExecutionError("index-on-non-array", ctx.at))

arrayAccessCommand(ctx, args) ==
    LET cv == ctx.currentValue
        index == args[1].n
        at == ctx.at
    IN  IF IsArray(cv)
        THEN LET actualIndex == IF index < 0 THEN Len(cv.items) + index ELSE index
             IN  IF actualIndex >= 0 /\ actualIndex < Len(cv.items)
                 THEN Return(ctx, cv.items[actualIndex + 1])
                 ELSE Fault(ctx, ExecutionError("index-out-of-bounds", at))
        ELSE Fault(ctx, ExecutionError("index-on-non-array", at))

arrayAccessValidate(args) == Len(args) = 1 /\ TypeOf(args[1]) = "number"

getPropCommand(ctx, args) == propertyCommand(ctx, args)

\* The loop of recursiveProp: k more reads of `name`, starting from cur at
\* depth 1; ok is FALSE when a read found no such property.
RECURSIVE Descend(_, _, _)
Descend(cur, name, k) ==
    IF k = 0 THEN [ok |-> TRUE, value |-> cur]
    ELSE IF IsObject(cur) /\ HasProp(cur, name)
    THEN Descend(ReadProp(cur, name), name, k - 1)
    ELSE [ok |-> FALSE, value |-> cur]

recursivePropCommand(ctx, args) ==
    LET propertyName == args[1].s
        times == IF Len(args) >= 2 THEN args[2] ELSE Num(1)
        numTimes == IF TypeOf(times) = "string" THEN ParseInt(times.s)
                    ELSE [nan |-> FALSE, n |-> times.n]
    IN  IF numTimes.nan \/ numTimes.n <= 0 THEN Return(ctx, ctx.currentValue)
        ELSE LET d == Descend(ctx.currentValue, propertyName, numTimes.n)
             IN  IF d.ok THEN Return(ctx, d.value)
                 ELSE Fault(ctx, ExecutionError("recursive-property-failed", ctx.at))

recursivePropValidate(args) ==
    /\ Len(args) >= 1
    /\ Len(args) <= 2
    /\ TypeOf(args[1]) = "string"
    /\ (Len(args) = 1 \/ TypeOf(args[2]) \in {"string", "number"})

\* text.toLowerCase() on the strings of the host tree
ToLowerCase(text) ==
    CASE text = " Item 1 " -> " item 1 "
      [] text = "Item 2" -> "item 2"
      [] text = " Item 1 Item 2" -> " item 1 item 2"
      [] text = "Item" -> "item"
      [] OTHER -> text

\* The shared body of propIncludes, propIncludesLowercase and matchProp after
\* their predicate is fixed: TestText(test, arg, text) is the predicate on the
\* property's text.
TestText(test, arg, text) ==
    CASE test = "propIncludes" -> Includes(text, arg)
      [] test = "propIncludesLowercase" -> Includes(ToLowerCase(text), ToLowerCase(arg))
      [] OTHER -> RegexTest(arg, text)

filterCommand(ctx, propertyName, test, arg) ==
    LET cv == ctx.currentValue
        at == ctx.at
        Qualifies(item) ==
            /\ IsObject(item)
            /\ HasProp(item, propertyName)
            /\ TypeOf(ReadProp(item, propertyName)) = "string"
        Keep(item) == Qualifies(item) /\ TestText(test, arg, ReadProp(item, propertyName).s)
    IN  IF IsArray(cv)
        THEN LET results == SelectSeq(cv.items, Keep)
                 noneQualifies == /\ Len(results) = 0
                                  /\ Len(cv.items) > 0
                                  /\ ~\E k \in 1..Len(cv.items) : Qualifies(cv.items[k])
                 c2 == IF noneQualifies
                       THEN RecordSoft(ctx, ExecutionError("filter-no-string-property-on-items", at))
                       ELSE ctx
             IN  Return(c2, IF Len(results) > 0 THEN Arr(results) ELSE Null)
        ELSE IF ~Keep(cv) /\ IsObject(cv) /\ ~Qualifies(cv)
        THEN Fault(ctx, ExecutionError("filter-no-string-property", at))
        ELSE Return(ctx, IF Keep(cv) THEN cv ELSE Null)

propIncludesCommand(ctx, args) ==
    filterCommand(ctx, args[1].s, "propIncludes", args[2].s)

propIncludesLowercaseCommand(ctx, args) ==
    filterCommand(ctx, args[1].s, "propIncludesLowercase", args[2].s)

matchPropCommand(ctx, args) ==
    LET regexPattern == args[2].s
        errRegex == ValidationError("invalid-pattern", ctx.at)
    IN  IF ~RegexValid(regexPattern)
        THEN IF ctx.config.errorHandling = "throw" THEN Throw(ctx, errRegex)
             ELSE Return(RecordSoft(ctx, errRegex), Resolve(ctx.config))
        ELSE filterCommand(ctx, args[1].s, "matchProp", regexPattern)

filterValidate(args) ==
    Len(args) = 2 /\ TypeOf(args[1]) = "string" /\ TypeOf(args[2]) = "string"

(***************************************************************************)
(* Plugin commands: handlers an extension registers.  trim and             *)
(* getAttribute compete with native methods of the same name; boom throws. *)
(***************************************************************************)
pluginTrim(ctx, args) == Return(ctx, Str("plugin:trim"))
pluginGetAttribute(ctx, args) == Return(ctx, Str("plugin:getAttribute"))
pluginBoom(ctx, args) == Throw(ctx, [code |-> "", kind |-> "handler-threw", at |-> ctx.at, by |-> ""])

PluginCommands ==
    [trim |-> "pluginTrim", getAttribute |-> "pluginGetAttribute", boom |-> "pluginBoom"]

(***************************************************************************)
(* The command registry: a map from command name to handler.               *)
(***************************************************************************)
\* registerBuiltInCommands: the registry after clear() and nine register calls
BuiltIns ==
    [n \in {"css-selector", "property", "array-access", "getProp", "p", "recursiveProp",
            "propIncludes", "propIncludesLowercase", "matchProp"} |->
        CASE n = "css-selector" -> "cssSelectorCommand"
          [] n = "property" -> "propertyCommand"
          [] n = "array-access" -> "arrayAccessCommand"
          [] n \in {"getProp", "p"} -> "getPropCommand"
          [] n = "recursiveProp" -> "recursivePropCommand"
          [] n = "propIncludes" -> "propIncludesCommand"
          [] n = "propIncludesLowercase" -> "propIncludesLowercaseCommand"
          [] OTHER -> "matchPropCommand"]

\* handler.validate && !handler.validate(args)
HandlerRejects(handler, args) ==
    CASE handler = "cssSelectorCommand" -> ~propertyValidate(args)
      [] handler \in {"propertyCommand", "getPropCommand"} -> ~propertyValidate(args)
      [] handler = "arrayAccessCommand" -> ~arrayAccessValidate(args)
      [] handler = "recursivePropCommand" -> ~recursivePropValidate(args)
      [] handler \in {"propIncludesCommand", "propIncludesLowercaseCommand",
                      "matchPropCommand"} -> ~filterValidate(args)
      [] OTHER -> FALSE

\* handler.execute(context, ...args)
HandlerExecute(handler, ctx, args) ==
    CASE handler = "cssSelectorCommand" -> cssSelectorCommand(ctx, args)
      [] handler = "propertyCommand" -> propertyCommand(ctx, args)
      [] handler = "arrayAccessCommand" -> arrayAccessCommand(ctx, args)
      [] handler = "getPropCommand" -> getPropCommand(ctx, args)
      [] handler = "recursivePropCommand" -> recursivePropCommand(ctx, args)
      [] handler = "propIncludesCommand" -> propIncludesCommand(ctx, args)
      [] handler = "propIncludesLowercaseCommand" -> propIncludesLowercaseCommand(ctx, args)
      [] handler = "matchPropCommand" -> matchPropCommand(ctx, args)
      [] handler = "pluginTrim" -> pluginTrim(ctx, args)
      [] handler = "pluginGetAttribute" -> pluginGetAttribute(ctx, args)
      [] OTHER -> pluginBoom(ctx, args)

\* The catch of CommandRegistry.execute rethrowing what it caught.
WrapThrowRethrow(name, out) == out

\* The catch of CommandRegistry.execute: whatever the handler threw leaves
\* as a new execution error whose message carries the original message.
WrapThrow(name, out) ==
    IF out.thrown
    THEN [out EXCEPT !.error = [code |-> "EXECUTION_ERROR", kind |-> out.error.kind,
                                at |-> out.error.at, by |-> name]]
    ELSE out

\* CommandRegistry.execute(name, context, ...args) on the registry `commands`
RegistryExecute(commands, name, ctx, args) ==
    IF name \notin DOMAIN commands
    THEN Throw(ctx, ExecutionError("unknown-command-in-registry", ctx.at))
    ELSE IF HandlerRejects(commands[name], args)
    THEN Throw(ctx, ValidationError("invalid-arguments", ctx.at))
    ELSE WrapThrow(name, HandlerExecute(commands[name], ctx, args))

(***************************************************************************)
(* The execution engine's per-command dispatch.                            *)
(***************************************************************************)
\* ExecutionEngine.isNativeMethod
isNativeMethod(value, methodName) ==
    IF IsNullish(value) \/ TypeOf(value) \notin {"object", "function"}
    THEN FALSE
    ELSE HasMethod(value, methodName)

\* The argument conversion of executeNativeMethod: booleans, then numbers,
\* else the text itself.
ConvertArg(arg) ==
    IF arg.s = "true" THEN Bool(TRUE)
    ELSE IF arg.s = "false" THEN Bool(FALSE)
    ELSE IF ~ParseInt(arg.s).nan THEN Num(ParseInt(arg.s).n)
    ELSE arg

ConvertArgs(args) == [k \in 1..Len(args) |-> ConvertArg(args[k])]

\* ExecutionEngine.executeNativeMethod
executeNativeMethod(ctx, value, methodName, args) ==
    Return(ctx, CallMethod(value, methodName, ConvertArgs(args)))

\* ExecutionEngine.executeCommand on the registry `commands`
executeCommand(commands, command, ctx) ==
    CASE command.type = "css-selector" ->
            RegistryExecute(commands, "css-selector", ctx, <<Str(command.selector)>>)
      [] command.type = "function" ->
            IF IsNullish(ctx.currentValue)
            THEN Fault(ctx, ExecutionError("method-on-null", ctx.at))
            ELSE IF isNativeMethod(ctx.currentValue, command.name)
            THEN executeNativeMethod(ctx, ctx.currentValue, command.name, command.args)
            ELSE IF command.name \in DOMAIN commands
            THEN RegistryExecute(commands, command.name, ctx, command.args)
            ELSE Fault(ctx, ExecutionError("unknown-command", ctx.at))
      [] command.type = "property" ->
            RegistryExecute(commands, "property", ctx, <<Str(command.name)>>)
      [] command.type = "array-access" ->
            RegistryExecute(commands, "array-access", ctx, <<Num(command.index)>>)
      [] OTHER -> Throw(ctx, ExecutionError("unknown-command-type", ctx.at))

(***************************************************************************)
(* The cache: a map from key to entry.                                     *)
(***************************************************************************)
CacheDefaultTTL == 60000

\* tagName and className of the elements of the host tree
TagAndClass(element) == IF element.s = "list" THEN "UL" ELSE "LI"

\* ExecutionEngine.generateCacheKey
generateCacheKey(commands, element) ==
    LET id == IF element.t = "element" THEN ReadProp(element, "id").s ELSE ""
        elementId == IF element.t = "element"
                     THEN (IF id # "" THEN id ELSE TagAndClass(element))
                     ELSE "document"
    IN  <<commands, elementId>>

\* Live with the expiry test off by one (`>=` for `>`).
LiveOffByOne(store, key, t) ==
    key \in DOMAIN store /\ t - store[key].timestamp < store[key].ttl

\* entry is stored and `Date.now() - entry.timestamp > entry.ttl` is false
Live(store, key, t) == key \in DOMAIN store /\ t - store[key].timestamp <= store[key].ttl

Without(store, key) == [k \in DOMAIN store \ {key} |-> store[k]]

\* Cache.get: the value returned (null when absent or expired)
CacheGetValue(store, key, t) == IF Live(store, key, t) THEN store[key].value ELSE Null

\* Cache.get: the store afterwards (an expired entry is deleted, a live
\* entry counts one more hit)
CacheGetStore(store, key, t) ==
    IF key \notin DOMAIN store THEN store
    ELSE IF ~Live(store, key, t) THEN Without(store, key)
    ELSE [store EXCEPT ![key].hits = @ + 1]

\* Cache.set
CacheSet(store, key, value, ttl, t) ==
    LET entry == [value |-> value, timestamp |-> t,
                  ttl |-> IF ttl # 0 THEN ttl ELSE CacheDefaultTTL, hits |-> 0]
    IN  [k \in DOMAIN store \cup {key} |-> IF k = key THEN entry ELSE store[k]]

(***************************************************************************)
(* Inputs.  A selector string is represented by what the parser makes of   *)
(* it: the empty string, a string the parser rejects, or a pipeline with   *)
(* its command list.                                                       *)
(***************************************************************************)
Stages ==
    {Css("li"), Css("ul"), Css(".missing"), Prop("textContent"), Prop("extra"),
     Idx(0), Idx(2), Fn("trim", <<>>), Fn("getAttribute", <<Str("id")>>),
     Fn("propIncludes", <<Str("nope"), Str("x")>>),
     Fn("matchProp", <<Str("textContent"), Str("(")>>),
     Fn("getProp", <<>>), Fn("boom", <<>>)}

Pipelines == UNION {[1..k -> Stages] : k \in 0..MaxLen}

Selectors ==
    {[kind |-> "empty", commands |-> <<>>], [kind |-> "malformed", commands |-> <<>>]}
    \cup {[kind |-> "pipeline", commands |-> p] : p \in Pipelines}

\* Parser.parse: never throws; a tokenizer or syntax error becomes isValid = FALSE
Parse(input) ==
    IF input.kind = "pipeline"
    THEN [commands |-> input.commands, isValid |-> TRUE, errors |-> <<>>]
    ELSE [commands |-> <<>>, isValid |-> FALSE, errors |-> <<"syntax">>]

(***************************************************************************)
(* State.                                                                  *)
(***************************************************************************)
Callers == {"A", "B"}

VARIABLES
    selector,        \* the selector string the behaviour's execute calls pass
    root,            \* the root node the behaviour's execute calls pass
    config,          \* ConfigManager.config of the instance
    registry,        \* commandRegistry.commands
    plugins,         \* SuperSelector.plugins (names of the loaded plugins)
    cache,           \* Cache.store of the engine's cache
    now,             \* Date.now()
    executionDepth,  \* ExecutionEngine.executionDepth
    run,             \* per caller: the execute call in flight or returned
    events,          \* per caller: the events emitted during its current call
    calls,           \* number of execute calls started
    log,             \* the finished calls, in order of return
    parser,          \* the string handed to Parser.parse and what parse returned
    cacheCall,       \* the last call made on the Cache itself and what it returned
    detached,        \* SuperSelector.cache is no longer the engine's cache
    hooks,           \* names of the plugins whose hooks listen on the emitter
    lastCall,        \* the last management call of the instance and how it ended
    other            \* a second SuperSelector instance of the same process

\* The state outside the engine and the registry.
ext == <<detached, hooks, lastCall, other, parser, cacheCall>>

vars == <<selector, root, config, registry, plugins, cache, now, executionDepth, run, events,
          calls, log, detached, hooks, lastCall, other, parser, cacheCall>>

NoResult ==
    [success |-> FALSE, value |-> Undefined, error |-> NoError,
     commandsExecuted |-> 0, cacheHit |-> FALSE]

NoOutcome == [thrown |-> FALSE, value |-> Undefined, error |-> NoError]

\* pc: "idle"    no call in flight
\*     "stage"   suspended at `await this.executeCommand(command, context)` of stage i
\*     "settle"  executeCommands has settled; suspended at `await this.executeCommands`
\*     "done"    execute has returned `result`
\*     "raised"  execute has ended with an exception
Idle ==
    [pc |-> "idle", commands |-> <<>>, element |-> Doc, config |-> CHOOSE c \in Configs : TRUE,
     key |-> <<<<>>, "">>, i |-> 0, value |-> Undefined, had |-> FALSE, soft |-> NoError,
     pend |-> NoOutcome, start |-> 0, result |-> NoResult]

\* A management call: n is the number of execute calls that had returned
\* when it was made, initialize and destroy the number of times it called
\* the plugin's initialize and destroy.
Call(op, plugin, ended, n, inits, destroys) ==
    [op |-> op, plugin |-> plugin, ended |-> ended, n |-> n,
     initialize |-> inits, destroy |-> destroys]

NoCall == Call("", "", "", 0, 0, 0)

\* The parser before any parse call: no input, no result, no edit of the input.
NoParser ==
    [input |-> <<>>, parsed |-> FALSE, edits |-> 0,
     result |-> [commands |-> <<>>, isValid |-> FALSE, errors |-> <<>>]]

\* The Cache before any call made on it directly.
\* result is what the call returned (null for the calls returning nothing),
\* keys what keys() returned, stats what getStats() returned (totalAge for
\* the numerator of averageAge), cleaned the counter of cleanup.
NoCacheCall ==
    [op |-> "", key |-> "", result |-> Null, keys |-> {},
     stats |-> [size |-> 0, totalHits |-> 0, totalAge |-> 0], cleaned |-> 0]

\* The instance after its constructor, and the process around it.
Constructed ==
    /\ registry = BuiltIns
    /\ plugins = {}
    /\ cache = [k \in {} |-> 0]
    /\ now = 0
    /\ executionDepth = 0
    /\ run = [c \in Callers |-> Idle]
    /\ events = [c \in Callers |-> <<>>]
    /\ calls = 0
    /\ log = <<>>
    /\ detached = FALSE
    /\ hooks = {}
    /\ lastCall = NoCall
    /\ other = [live |-> FALSE, plugins |-> {}]

Init ==
    /\ selector \in Selectors
    /\ root \in Roots
    /\ config \in Configs
    /\ Constructed
    /\ parser = NoParser
    /\ cacheCall = NoCacheCall

(***************************************************************************)
(* ExecutionEngine.execute and executeCommands, one step per await.        *)
(***************************************************************************)
\* Emit emitting the event twice.
EmitTwice(c, type) == [events EXCEPT ![c] = Append(Append(@, type), type)]

\* EventEmitter.emit(type, ...) during the call of caller c
Emit(c, type) == [events EXCEPT ![c] = Append(@, type)]

\* The call in flight, suspended on the promise of stage i with outcome `out`.
Suspended(r, i, value, out) ==
    [r EXCEPT !.pc = "stage", !.i = i, !.value = value,
              !.had = out.had, !.soft = out.soft,
              !.pend = [thrown |-> out.thrown, value |-> out.value, error |-> out.error]]

\* The loop body of executeCommands up to its await: set context.currentValue,
\* call executeCommand for stage i and suspend on its promise.
BeginStage(r, i, value) ==
    Suspended(r, i, value,
              executeCommand(registry, r.commands[i],
                             Ctx(value, r.had, r.soft, r.config, i)))

\* executeCommands has settled (returned a value or thrown); execute awaits it.
Settled(r, thrown, value, error) ==
    [r EXCEPT !.pc = "settle", !.value = value,
              !.pend = [thrown |-> thrown, value |-> value, error |-> error]]

\* HitResult without the cache-hit flag.
HitResultUnflagged(cached) ==
    [success |-> TRUE, value |-> cached, error |-> NoError,
     commandsExecuted |-> 0, cacheHit |-> FALSE]

\* The result execute returns on a cache hit.
HitResult(cached) ==
    [success |-> TRUE, value |-> cached, error |-> NoError,
     commandsExecuted |-> 0, cacheHit |-> TRUE]

\* CompleteResult reporting success whenever no stage threw.
CompleteResultAlwaysSuccess(r) ==
    [success |-> TRUE, value |-> r.value, error |-> NoError,
     commandsExecuted |-> Len(r.commands), cacheHit |-> FALSE]

\* CompleteResult leaving the soft error out of the result.
CompleteResultSilent(r) ==
    [success |-> ~r.had, value |-> r.value, error |-> NoError,
     commandsExecuted |-> Len(r.commands), cacheHit |-> FALSE]

\* The result execute returns when executeCommands returned.
CompleteResult(r) ==
    [success |-> ~r.had, value |-> r.value,
     error |-> IF r.had THEN r.soft ELSE NoError,
     commandsExecuted |-> Len(r.commands), cacheHit |-> FALSE]

\* The catch block's error: the thrown error when it carries a code, else a
\* new execution error with its message.
CaughtError(e) == IF e.code # "" THEN e ELSE ExecutionError(e.kind, e.at)

\* CatchResult with the default value in every mode.
CatchResultDefault(r) ==
    [success |-> FALSE, value |-> r.config.defaultValue,
     error |-> CaughtError(r.pend.error),
     commandsExecuted |-> 0, cacheHit |-> FALSE]

\* The result execute returns from its catch block.
CatchResult(r) ==
    [success |-> FALSE,
     value |-> IF r.config.errorHandling = "return-default" THEN r.config.defaultValue
               ELSE Null,
     error |-> CaughtError(r.pend.error),
     commandsExecuted |-> 0, cacheHit |-> FALSE]

\* A catch block that rethrows in throw mode.
catchBlockRethrow(r) ==
    IF r.config.errorHandling = "throw"
    THEN [pc |-> "raised", result |-> NoResult]
    ELSE [pc |-> "done", result |-> CatchResult(r)]

\* The catch block of execute: the throw of the pipeline ends as a returned
\* result (pc "done"); "raised" would be an exception leaving execute.
catchBlock(r) == [pc |-> "done", result |-> CatchResult(r)]

\* The results SuperSelector.execute returns before it reaches the engine.
RequiredResult ==
    [success |-> FALSE, value |-> Null, error |-> [code |-> "VALIDATION_ERROR", kind |-> "selector-and-element-required", at |-> 0, by |-> ""],
     commandsExecuted |-> 0, cacheHit |-> FALSE]

ParseFailureResult ==
    [success |-> FALSE, value |-> Null, error |-> ParseError("parse-errors"),
     commandsExecuted |-> 0, cacheHit |-> FALSE]

Finished(c, element, result, cfg, start) ==
    Append(log, [caller |-> c, element |-> element, result |-> result,
                 config |-> cfg, start |-> start, end |-> now])

\* SuperSelector.execute(selector, root) up to its first suspension:
\* the argument check, the parse, and ExecutionEngine.execute up to the await
\* of the first stage (cache lookup, execution:start, depth guard).
Execute(c) ==
    /\ run[c].pc \in {"idle", "done"}
    /\ calls < MaxCalls
    /\ calls' = calls + 1
    /\ LET parsed == Parse(selector)
           element == root
           key == generateCacheKey(parsed.commands, element)
           fresh == [Idle EXCEPT !.commands = parsed.commands, !.element = element,
                                 !.config = config, !.key = key, !.value = element,
                                 !.start = now]
           returned(res) == [fresh EXCEPT !.pc = "done", !.result = res]
       IN  IF selector.kind = "empty"
           THEN /\ run' = [run EXCEPT ![c] = returned(RequiredResult)]
                /\ log' = Finished(c, element, RequiredResult, config, now)
                /\ events' = [events EXCEPT ![c] = <<>>]
                /\ UNCHANGED <<cache, executionDepth>>
           ELSE IF ~parsed.isValid
           THEN /\ run' = [run EXCEPT ![c] = returned(ParseFailureResult)]
                /\ log' = Finished(c, element, ParseFailureResult, config, now)
                /\ events' = [events EXCEPT ![c] = <<>>]
                /\ UNCHANGED <<cache, executionDepth>>
           ELSE IF config.cacheEnabled /\ CacheGetValue(cache, key, now) # Null
           THEN /\ run' = [run EXCEPT ![c] = returned(HitResult(CacheGetValue(cache, key, now)))]
                /\ log' = Finished(c, element, HitResult(CacheGetValue(cache, key, now)),
                                   config, now)
                /\ cache' = CacheGetStore(cache, key, now)
                /\ events' = [events EXCEPT ![c] = <<>>]
                /\ executionDepth' = 0
           ELSE /\ cache' = IF config.cacheEnabled THEN CacheGetStore(cache, key, now)
                            ELSE cache
                /\ events' = [events EXCEPT ![c] = <<"execution:start">>]
                /\ log' = log
                /\ IF executionDepth > config.maxDepth
                   THEN /\ run' = [run EXCEPT ![c] =
                                Settled(fresh, TRUE, Undefined,
                                        ExecutionError("max-depth-exceeded", 0))]
                        /\ executionDepth' = executionDepth
                   ELSE IF Len(parsed.commands) = 0
                   THEN /\ run' = [run EXCEPT ![c] = Settled(fresh, FALSE, element, NoError)]
                        /\ executionDepth' = executionDepth
                   ELSE /\ run' = [run EXCEPT ![c] = BeginStage(fresh, 1, element)]
                        /\ executionDepth' = executionDepth + 1
    /\ UNCHANGED <<selector, root, config, registry, plugins, now>>
    /\ UNCHANGED ext

\* Promotes without the `i < commands.length - 1` test: the last stage too.
PromotesLast(r) ==
    r.pend.value = Undefined /\ ~r.had

\* The promotion of an undefined interior result (executeCommands, after a stage).
Promotes(r) ==
    r.pend.value = Undefined /\ ~r.had /\ r.i < Len(r.commands)

\* executeCommands resumes after the await of stage i.
Resume(c) ==
    LET r == run[c]
    IN  /\ r.pc = "stage"
        /\ IF r.pend.thrown
           THEN /\ run' = [run EXCEPT ![c] = Settled(r, TRUE, Undefined, r.pend.error)]
                /\ executionDepth' = executionDepth - 1
                /\ events' = events
           ELSE IF Promotes(r) /\ r.config.errorHandling = "throw"
           THEN /\ run' = [run EXCEPT ![c] =
                        Settled(r, TRUE, Undefined, ExecutionError("undefined-result", r.i))]
                /\ executionDepth' = executionDepth - 1
                /\ events' = events
           ELSE LET promoted == Promotes(r)
                    value == IF promoted THEN Resolve(r.config) ELSE r.pend.value
                    r2 == IF promoted
                          THEN [r EXCEPT !.had = TRUE,
                                         !.soft = ExecutionError("undefined-result", r.i)]
                          ELSE r
                IN  /\ events' = Emit(c, "command:executed")
                    /\ IF r.i < Len(r.commands)
                       THEN /\ run' = [run EXCEPT ![c] = BeginStage(r2, r.i + 1, value)]
                            /\ executionDepth' = executionDepth
                       ELSE /\ run' = [run EXCEPT ![c] = Settled(r2, FALSE, value, NoError)]
                            /\ executionDepth' = executionDepth - 1
        /\ UNCHANGED <<selector, root, config, registry, plugins, cache, now, calls, log>>
        /\ UNCHANGED ext

\* execute resumes after the await of executeCommands: the cache write,
\* execution:complete and the result, or the catch block; then the finally.
Settle(c) ==
    LET r == run[c]
    IN  /\ r.pc = "settle"
        /\ IF ~r.pend.thrown
           THEN LET res == CompleteResult(r)
                IN  /\ cache' = IF r.config.cacheEnabled /\ r.value # Null /\ ~r.had
                                THEN CacheSet(cache, r.key, r.value, r.config.cacheTTL, now)
                                ELSE cache
                    /\ events' = Emit(c, "execution:complete")
                    /\ run' = [run EXCEPT ![c] = [r EXCEPT !.pc = "done", !.result = res]]
                    /\ log' = Finished(c, r.element, res, r.config, r.start)
           ELSE LET out == catchBlock(r)
                IN  /\ cache' = cache
                    /\ events' = Emit(c, "execution:error")
                    /\ run' = [run EXCEPT ![c] = [r EXCEPT !.pc = out.pc,
                                                           !.result = out.result]]
                    /\ log' = Finished(c, r.element, out.result, r.config, r.start)
        /\ executionDepth' = 0
        /\ UNCHANGED <<selector, root, config, registry, plugins, now, calls>>
        /\ UNCHANGED ext

(***************************************************************************)
(* The environment: the clock and the plugin calls, made between calls.    *)
(***************************************************************************)
Quiet == \A c \in Callers : run[c].pc \in {"idle", "done", "raised"}

\* The clock is read only to stamp and to age cache entries: it advances
\* while an entry is stored.
Tick ==
    /\ Quiet
    /\ DOMAIN cache # {}
    /\ now < MaxTime
    /\ now' = now + 1
    /\ UNCHANGED <<selector, root, config, registry, plugins, cache, executionDepth, run, events,
                   calls, log>>
    /\ UNCHANGED ext

\* SuperSelector.loadPlugin of the plugin "P" (commands trim, getAttribute, boom)
LoadPlugin ==
    /\ Quiet
    /\ "P" \notin plugins
    /\ registry' = [n \in DOMAIN registry \cup DOMAIN PluginCommands |->
                        IF n \in DOMAIN PluginCommands THEN PluginCommands[n] ELSE registry[n]]
    /\ plugins' = plugins \cup {"P"}
    /\ UNCHANGED <<selector, root, config, cache, now, executionDepth, run, events, calls, log>>
    /\ UNCHANGED ext

Next ==
    \/ Execute("A")
    \/ Resume("A")
    \/ Settle("A")
    \/ Tick
    \/ LoadPlugin

Spec == Init /\ [][Next]_vars

(***************************************************************************)
(* Properties.                                                             *)
(***************************************************************************)
A == run["A"]

LastEvent(c) == IF events[c] = <<>> THEN "" ELSE events[c][Len(events[c])]

\* The call of caller A has returned from the engine without a cache hit and
\* without a throw of the pipeline.
Completed == A.pc = "done" /\ LastEvent("A") = "execution:complete"

\* The call of caller A has returned from the catch block of the engine.
Caught == A.pc = "done" /\ LastEvent("A") = "execution:error"

\* Entries j < k of the log are two engine executions with caching enabled,
\* the later one started within the TTL of the end of the earlier one.
WithinTTL(j, k) ==
    /\ j < k
    /\ selector.kind = "pipeline"
    /\ log[j].config.cacheEnabled
    /\ log[k].config.cacheEnabled
    /\ log[k].start - log[j].end <= log[j].config.cacheTTL

\* The execution of log entry j computed a value and stored it.
Stored(j) ==
    /\ ~log[j].result.cacheHit
    /\ log[j].result.success
    /\ log[j].result.value # Null

\* C1 (as stated): with caching enabled, any two execute calls of the same
\* command list on the same root made within the TTL window return the same
\* value, and the second reports cacheHit = true.
C1_AnyRepeatHits ==
    \A j, k \in 1..Len(log) :
        WithinTTL(j, k) =>
            /\ log[k].result.cacheHit
            /\ log[k].result.value = log[j].result.value

\* C1 (amended): when the first execution computed its value itself, ended
\* without a soft or hard error and with a value other than null, every later
\* call of the same command list on the same root within the TTL of that
\* execution is a cache hit with success, no error and the same value.
C1_StoredRepeatHits ==
    \A j, k \in 1..Len(log) :
        (WithinTTL(j, k) /\ Stored(j)) =>
            log[k].result = HitResult(log[j].result.value)

C1_Witness ==
    \E j, k \in 1..Len(log) :
        /\ WithinTTL(j, k)
        /\ Stored(j)
        /\ log[k].start = log[j].end + TTL
        /\ log[k].result.cacheHit

\* C2: an execution that is not a cache hit and ends without a throw reports
\* success exactly when no soft error was recorded, and its value is the value
\* of the last stage (after null/default substitution) also when success is
\* false.
C2_SuccessIsNoSoftError ==
    Completed =>
        /\ A.result.success = ~A.had
        /\ A.result.value = A.value
        /\ A.result.value = A.pend.value

C2_Witness ==
    /\ Completed
    /\ A.had
    /\ ~A.result.success
    /\ A.result.value # Null


\* Steps of one execute call of caller A (Execute starts a new one).
SameCall == calls' = calls

\* C3 (as stated): once a stage has faulted, the error reported in the result
\* is the error of the first stage that faulted, whatever later stages do.
C3_ResultErrorIsFirstFault ==
    (A.pc = "done" /\ A.had) =>
        /\ A.result.error.kind = A.soft.kind
        /\ A.result.error.at = A.soft.at

\* C3 (amended): within one execution hadSoftError never returns to false and
\* softError is never replaced once set; an execution that ends without a
\* throw reports that first soft error, and one that ends with a throw
\* reports the thrown error.
C3_FirstSoftErrorKept ==
    [][ /\ (SameCall /\ A.had) =>
              (run'["A"].had /\ run'["A"].soft = A.soft)
        /\ (SameCall /\ ~A.had /\ run'["A"].had) =>
              run'["A"].soft.at \in {A.i, run'["A"].i}
        /\ (run'["A"].pc = "done" /\ ~run'["A"].pend.thrown /\ run'["A"].had) =>
              run'["A"].result.error = run'["A"].soft
        /\ (run'["A"].pc = "done" /\ run'["A"].pend.thrown) =>
              run'["A"].result.error = CaughtError(run'["A"].pend.error)
      ]_vars

\* Two stages fault one after the other; the second fault is absorbed.
C3_Witness ==
    /\ Completed
    /\ root = El("li2")
    /\ A.commands = <<Prop("extra"), Prop("textContent")>>
    /\ A.soft.kind = "property-missing"
    /\ A.soft.at = 1
    /\ A.result.error = A.soft

\* C4 (as stated): in throw mode every fault is hard: a stage that records a
\* soft error throws, so that no later stage runs and the execution ends in
\* the catch block.
C4_ThrowModeFaultsThrow ==
    (A.pc # "idle" /\ A.config.errorHandling = "throw" /\ A.had) => A.pend.thrown

\* C5: when a stage (or the depth guard) throws, nothing is written to the
\* cache, execution:error is emitted and execution:complete is not, and the
\* result has success = false, the error, and the default value in
\* return-default mode, null otherwise.
C5_ThrowEndsInCatch ==
    [][ (A.pc \in {"stage", "settle"} /\ A.pend.thrown) =>
           /\ cache' = cache
           /\ run'["A"].pc = "done" =>
                 /\ events'["A"] = Append(events["A"], "execution:error")
                 /\ \A n \in 1..Len(events'["A"]) :
                        events'["A"][n] # "execution:complete"
                 /\ ~run'["A"].result.success
                 /\ run'["A"].result.error.code # ""
                 /\ run'["A"].result.error.kind = A.pend.error.kind
                 /\ run'["A"].result.value =
                        IF A.config.errorHandling = "return-default"
                        THEN A.config.defaultValue ELSE Null
      ]_vars

C5_Witness ==
    /\ Caught
    /\ A.config.cacheEnabled
    /\ A.config.errorHandling = "return-default"
    /\ A.result.value = DefaultValue
    /\ A.pend.error.kind = "invalid-arguments"
    /\ A.key \notin DOMAIN cache

\* The number of steps the call in flight still has to take: the stages not
\* yet resumed, the settling of executeCommands and the return of execute.
Remaining(r) ==
    CASE r.pc = "stage" -> Len(r.commands) - r.i + 2
      [] r.pc = "settle" -> 1
      [] OTHER -> 0

InFlight == A.pc \in {"stage", "settle"}

SoftFaultedHere(r) ==
    r.pc = "stage" /\ r.had /\ r.soft.at = r.i /\ ~r.pend.thrown

\* The soft errors recorded by the collection branches of the property and
\* filter commands.
CollectionKinds ==
    {"property-missing-on-items", "filter-no-string-property-on-items"}

ScenarioC == <<Css(".missing"), Prop("textContent")>>

\* C7 (as stated): in return-default mode a stage that faults softly yields
\* the configured default value as its output.
C7_SoftFaultYieldsDefault ==
    (A.config.errorHandling = "return-default" /\ SoftFaultedHere(A)) =>
        A.pend.value = A.config.defaultValue

\* C7 (amended): in return-default mode a stage that faults softly yields the
\* configured default, except for the property and filter commands applied to
\* a collection, which yield their list of results or null; the pipeline
\* continues with the stage's output; Scenario C ends with success = false
\* and the default in return-default mode, null in return-null mode.
C7_SoftFaultOutput ==
    [][ /\ (run'["A"].config.errorHandling = "return-default"
              /\ SoftFaultedHere(run'["A"])) =>
              IF run'["A"].soft.kind \in CollectionKinds
              THEN /\ IsArray(run'["A"].value)
                   /\ run'["A"].pend.value = Null \/ IsArray(run'["A"].pend.value)
              ELSE run'["A"].pend.value = run'["A"].config.defaultValue
        /\ (SameCall /\ SoftFaultedHere(A) /\ run'["A"].pc = "stage") =>
              run'["A"].value = A.pend.value
        /\ (run'["A"].pc = "done" /\ run'["A"].commands = ScenarioC
              /\ run'["A"].config.errorHandling # "throw"
              /\ ~run'["A"].pend.thrown /\ ~run'["A"].result.cacheHit) =>
              /\ ~run'["A"].result.success
              /\ run'["A"].result.value =
                     IF run'["A"].config.errorHandling = "return-default"
                     THEN run'["A"].config.defaultValue ELSE Null
      ]_vars

C7_Witness ==
    /\ Completed
    /\ A.commands = ScenarioC
    /\ A.config.errorHandling = "return-default"
    /\ A.soft.kind = "property-on-null"
    /\ A.result.value = DefaultValue
    /\ ~A.result.success

\* C8 (as stated): in return-default mode every failed result for which the
\* pipeline produced no value of its own (missing selector, parse failure,
\* hard error) has the configured default as its value, and every failed
\* result carries an error with a code.
C8_FailureCarriesDefault ==
    (A.pc = "done" /\ ~A.result.success) =>
        /\ A.result.error.code # ""
        /\ (A.config.errorHandling = "return-default"
              /\ (selector.kind # "pipeline" \/ A.pend.thrown)) =>
              A.result.value = A.config.defaultValue

\* The function stage that has just run for caller A.
Invoked == A.pc = "stage" /\ A.commands[A.i].type = "function"

MaxTTL == TTL + 1

\* The updates the behaviours pass to configure.
Updates ==
    {[errorHandling |-> "return-default"], [cacheEnabled |-> FALSE],
     [cacheEnabled |-> TRUE], [cacheTTL |-> MaxTTL]}

\* ConfigManager.update: { ...this.config, ...updates }
Merge(cfg, updates) ==
    [k \in DOMAIN cfg |-> IF k \in DOMAIN updates THEN updates[k] ELSE cfg[k]]

\* HeldConfig when the execution holds the manager's own object and update
\* assigns into it.
HeldConfigAliased(held, updates) == Merge(held, updates)

\* The configuration object an execution in flight holds after
\* ConfigManager.update: getAll handed it a copy, and update replaces
\* this.config by a new object, so the copy is as it was.
HeldConfig(held, updates) == held

\* SuperSelector.configure(updates): the update, and a new Cache for the
\* facade when a cacheTTL is given; the engine keeps the cache it was built with.
Configure ==
    \E updates \in Updates :
        /\ config' = Merge(config, updates)
        /\ run' = [c \in Callers |->
                     [run[c] EXCEPT !.config = HeldConfig(@, updates)]]
        /\ detached' = (detached \/ ("cacheTTL" \in DOMAIN updates /\ updates.cacheTTL # 0))
        /\ UNCHANGED <<selector, root, registry, plugins, cache, now, executionDepth, events,
                       calls, log, hooks, lastCall, other, parser, cacheCall>>

EmptyStore == [k \in {} |-> 0]

\* this.cache.store of the facade: the engine's store until configure
\* replaced the facade's cache, then the store of a cache nothing writes to.
FacadeStore == IF detached THEN EmptyStore ELSE cache

\* SuperSelector.clearCache(), called between execute calls: this.cache.clear()
ClearCache ==
    /\ Quiet
    /\ cache' = IF detached THEN cache ELSE EmptyStore
    /\ lastCall' = Call("clearCache", "", "returned", Len(log), 0, 0)
    /\ UNCHANGED <<selector, root, config, registry, plugins, now, executionDepth, run, events,
                   calls, log, detached, hooks, other, parser, cacheCall>>

\* SuperSelector.getCacheStats().size
CacheStatsSize == Cardinality(DOMAIN FacadeStore)

\* The selectors of the cache behaviours: a list, no match, an operation
\* returning undefined, a soft fault, a rejected call, two stages.
CacheSelectors ==
    {[kind |-> "pipeline", commands |-> p] :
        p \in {<<Css("li")>>, <<Css(".missing")>>, <<Fn("normalize", <<>>)>>,
               <<Prop("extra")>>, <<Fn("getProp", <<>>)>>,
               <<Css("ul"), Prop("textContent")>>}}

CacheInit ==
    /\ selector \in CacheSelectors
    /\ root = Doc
    /\ config \in Configs
    /\ Constructed
    /\ parser = NoParser
    /\ cacheCall = NoCacheCall
    /\ config.maxDepth = MaxDepthDefault
    /\ config.errorHandling = "return-null"
    /\ config.cacheEnabled

CacheNext ==
    \/ Execute("A")
    \/ Resume("A")
    \/ Settle("A")
    \/ Tick
    \/ Configure
    \/ ClearCache

CacheSpec == CacheInit /\ [][CacheNext]_vars


Present(v) == v # Null /\ v # Undefined

\* A step that starts an execute call of caller A.
Starts == calls' = calls + 1

\* C11 (as stated): a cache entry is written only when execute ends with
\* caching enabled, no soft error and no throw, and only for a value that is
\* neither null nor undefined, so that no cache hit returns such a value.
C11_OnlyPresentValuesStored ==
    /\ [](\A k \in DOMAIN cache : Present(cache[k].value))
    /\ [](\A j \in 1..Len(log) : log[j].result.cacheHit => Present(log[j].result.value))
    /\ [][(\E k \in DOMAIN cache' :
              k \notin DOMAIN cache \/ cache'[k].timestamp # cache[k].timestamp
                                    \/ cache'[k].value # cache[k].value) =>
             /\ A.pc = "settle"
             /\ A.config.cacheEnabled
             /\ ~A.had
             /\ ~A.pend.thrown]_vars

\* C12: a call that finds a live entry with caching enabled returns at once
\* with success, no error, the cached value, commandsExecuted = 0 and
\* cacheHit = true, without running a stage or emitting an event; a call
\* made with caching disabled neither reads nor writes the cache.
C12_HitReturnsAtOnce ==
    [][ /\ (Starts /\ selector.kind = "pipeline" /\ config.cacheEnabled
              /\ Live(cache, generateCacheKey(selector.commands, root), now)) =>
              /\ run'["A"].pc = "done"
              /\ run'["A"].i = 0
              /\ run'["A"].result =
                     [success |-> TRUE, error |-> NoError, commandsExecuted |-> 0,
                      cacheHit |-> TRUE,
                      value |-> cache[generateCacheKey(selector.commands, root)].value]
              /\ events'["A"] = <<>>
              /\ log' = Append(log, log'[Len(log')])
              /\ log'[Len(log')].result = run'["A"].result
        /\ (Starts /\ run'["A"].result.cacheHit) =>
              /\ config.cacheEnabled
              /\ Live(cache, run'["A"].key, now)
        /\ (Starts /\ ~config.cacheEnabled) => cache' = cache
        /\ (InFlight /\ ~A.config.cacheEnabled) => cache' = cache
      ]_vars

C12_Witness ==
    /\ A.pc = "done"
    /\ A.result.cacheHit
    /\ A.result.commandsExecuted = 0
    /\ events["A"] = <<>>
    /\ A.commands = <<Css("ul"), Prop("textContent")>>
    /\ A.result.value = Str(" Item 1 Item 2")

\* C15: a configure call made while an execution is in flight does not
\* change the configuration that execution uses: it keeps the one it was
\* started with until it returns, and the call's result and cache write
\* follow it; a call started afterwards takes the new configuration.
C15_ConfigIsSnapshot ==
    [][ /\ (SameCall /\ InFlight) => run'["A"].config = A.config
        /\ (Starts /\ run'["A"].pc # "idle") => run'["A"].config = config
        /\ (SameCall /\ A.pc = "settle" /\ run'["A"].pc = "done") =>
              /\ log'[Len(log')].config = A.config
              /\ (cache' # cache) =>
                    /\ A.config.cacheEnabled
                    /\ cache'[A.key].ttl = A.config.cacheTTL
      ]_vars

\* configure was called between the two stages of the call in flight.
C15_Witness ==
    /\ A.pc = "stage"
    /\ A.i = 1
    /\ Len(A.commands) = 2
    /\ A.config.errorHandling = "return-null"
    /\ config.errorHandling = "return-default"
    /\ A.config.cacheTTL # config.cacheTTL

\* C16 (as stated): the first execute call after clearCache() is not a
\* cache hit, and getCacheStats() describes the cache execute reads and writes.
C16_ClearCacheClears ==
    /\ (lastCall.op = "clearCache" /\ Len(log) > lastCall.n) =>
          ~log[lastCall.n + 1].result.cacheHit
    /\ CacheStatsSize = Cardinality(DOMAIN cache)


\* k command:executed events in a row.
Executed(k) == [n \in 1..k |-> "command:executed"]

CountExecuted(c) ==
    Cardinality({n \in 1..Len(events[c]) : events[c][n] = "command:executed"})

\* The call of caller A went through the engine's pipeline (it was neither
\* rejected before the engine nor answered from the cache).
Engaged == A.pc \in {"stage", "settle", "done"} /\ events["A"] # <<>>

Reported ==
    CASE A.pc = "stage" -> A.i - 1
      [] A.pend.thrown -> IF A.i > 0 THEN A.i - 1 ELSE 0
      [] OTHER -> Len(A.commands)

ConcSelectors ==
    {[kind |-> "pipeline", commands |-> p] :
        p \in {<<Css("li")>>, <<Css("li"), Prop("textContent")>>,
               <<Css("ul"), Prop("textContent")>>, <<Css("li"), Idx(0)>>}}

ConcInit ==
    /\ selector \in ConcSelectors
    /\ root = Doc
    /\ config \in Configs
    /\ Constructed
    /\ parser = NoParser
    /\ cacheCall = NoCacheCall

ConcNext ==
    \/ Execute("A")
    \/ Resume("A")
    \/ Settle("A")
    \/ Execute("B")
    \/ Resume("B")
    \/ Settle("B")

ConcSpec == ConcInit /\ [][ConcNext]_vars

\* The execution of caller c has run its first stage and not yet its last.
MidPipeline(c) == run[c].pc = "stage" /\ run[c].i < Len(run[c].commands)

\* C14 (as stated): once an execution has run its first stage, no stage and
\* no event of another execution occurs before it has run its last stage.
C14_NoInterleavingInPipeline ==
    [][\A c \in Callers :
          MidPipeline(c) =>
              \A d \in Callers \ {c} : run'[d] = run[d] /\ events'[d] = events[d]]_vars


(***************************************************************************)
(* Plugins.  P has commands only; Q has a command, a hook, initialize and  *)
(* destroy; Q2 is another plugin that also calls itself "Q"; Stuck has a   *)
(* command and a destroy that throws; Over has a hook and two commands     *)
(* named like the built-in getProp and like Q's shout; Bad has a command,  *)
(* a hook and an initialize that throws.  `plugins` holds the plugin       *)
(* objects stored in SuperSelector.plugins, each under its name.           *)
(***************************************************************************)
PluginIds == {"P", "Q", "Q2", "Bad"}

PluginOf(id) ==
    CASE id = "P" ->
            [name |-> "P", commands |-> PluginCommands, hooks |-> FALSE,
             initialize |-> "none", destroy |-> "none"]
      [] id = "Q" ->
            [name |-> "Q", commands |-> [shout |-> "pluginTrim"], hooks |-> TRUE,
             initialize |-> "returns", destroy |-> "returns"]
      [] id = "Q2" ->
            [name |-> "Q", commands |-> [whisper |-> "pluginGetAttribute"], hooks |-> FALSE,
             initialize |-> "returns", destroy |-> "returns"]
      [] id = "Stuck" ->
            [name |-> "Stuck", commands |-> [stuck |-> "pluginTrim"], hooks |-> FALSE,
             initialize |-> "none", destroy |-> "throws"]
      [] id = "Over" ->
            [name |-> "Over",
             commands |-> [getProp |-> "pluginGetAttribute", shout |-> "pluginGetAttribute"],
             hooks |-> TRUE, initialize |-> "none", destroy |-> "returns"]
      [] OTHER ->
            [name |-> "Bad", commands |-> [bad |-> "pluginBoom"], hooks |-> TRUE,
             initialize |-> "throws", destroy |-> "none"]

\* SuperSelector.getLoadedPlugins()
getLoadedPlugins == {PluginOf(id).name : id \in plugins}

\* SuperSelector.getAvailableCommands()
getAvailableCommands == DOMAIN registry

\* CommandRegistry.register for each command of a plugin
Register(commands, added) ==
    [n \in DOMAIN commands \cup DOMAIN added |->
        IF n \in DOMAIN added THEN added[n] ELSE commands[n]]

\* Unregister leaving every command in place.
UnregisterNothing(commands, names) == commands

\* CommandRegistry.unregister for each of the names
Unregister(commands, names) == [n \in DOMAIN commands \ names |-> commands[n]]

\* SuperSelector.loadPlugin(plugin), called between execute calls
LoadPluginOf(id) ==
    LET plugin == PluginOf(id)
    IN  /\ Quiet
        /\ IF plugin.name \in getLoadedPlugins
           THEN /\ lastCall' = Call("loadPlugin", id, "returned", Len(log), 0, 0)
                /\ UNCHANGED <<registry, hooks, plugins>>
           ELSE /\ registry' = Register(registry, plugin.commands)
                /\ hooks' = IF plugin.hooks THEN hooks \cup {id} ELSE hooks
                /\ IF plugin.initialize = "throws"
                   THEN /\ lastCall' = Call("loadPlugin", id, "raised", Len(log), 1, 0)
                        /\ plugins' = plugins
                   ELSE /\ lastCall' = Call("loadPlugin", id, "returned", Len(log),
                                            IF plugin.initialize = "none" THEN 0 ELSE 1, 0)
                        /\ plugins' = plugins \cup {id}
        /\ UNCHANGED <<selector, root, config, cache, now, executionDepth, run, events, calls,
                       log, detached, other, parser, cacheCall>>

\* SuperSelector.unloadPlugin(pluginName), called between execute calls
UnloadPlugin(name) ==
    /\ Quiet
    /\ IF name \notin getLoadedPlugins
       THEN /\ lastCall' = Call("unloadPlugin", name, "false", Len(log), 0, 0)
            /\ UNCHANGED <<registry, plugins>>
       ELSE LET id == CHOOSE i \in plugins : PluginOf(i).name = name
                plugin == PluginOf(id)
            IN  /\ registry' = Unregister(registry, DOMAIN plugin.commands)
                /\ IF plugin.destroy = "throws"
                   THEN /\ lastCall' = Call("unloadPlugin", name, "false", Len(log), 0, 1)
                        /\ plugins' = plugins
                   ELSE /\ lastCall' = Call("unloadPlugin", name, "true", Len(log), 0,
                                            IF plugin.destroy = "none" THEN 0 ELSE 1)
                        /\ plugins' = plugins \ {id}
    /\ UNCHANGED <<selector, root, config, cache, now, executionDepth, run, events, calls,
                   log, detached, hooks, other, parser, cacheCall>>

(***************************************************************************)
(* A second SuperSelector instance in the same process.  Its plugin set is *)
(* its own; the command registry it registers into is the module-level     *)
(* commandRegistry, the one the first instance dispatches through.         *)
(***************************************************************************)
OtherPluginIds == {"Q"}

\* new SuperSelector(): initialize calls registerBuiltInCommands
ConstructOther ==
    /\ Quiet
    /\ ~other.live
    /\ registry' = BuiltIns
    /\ other' = [live |-> TRUE, plugins |-> {}]
    /\ UNCHANGED <<selector, root, config, plugins, cache, now, executionDepth, run, events,
                   calls, log, detached, hooks, lastCall, parser, cacheCall>>

\* loadPlugin on the second instance
OtherLoadPlugin(id) ==
    /\ Quiet
    /\ other.live
    /\ id \notin other.plugins
    /\ registry' = Register(registry, PluginOf(id).commands)
    /\ other' = [other EXCEPT !.plugins = @ \cup {id}]
    /\ UNCHANGED <<selector, root, config, plugins, cache, now, executionDepth, run, events,
                   calls, log, detached, hooks, lastCall, parser, cacheCall>>

\* unloadPlugin on the second instance
OtherUnloadPlugin(id) ==
    /\ Quiet
    /\ other.live
    /\ id \in other.plugins
    /\ registry' = Unregister(registry, DOMAIN PluginOf(id).commands)
    /\ other' = [other EXCEPT !.plugins = @ \ {id}]
    /\ UNCHANGED <<selector, root, config, plugins, cache, now, executionDepth, run, events,
                   calls, log, detached, hooks, lastCall, parser, cacheCall>>

\* destroy on the second instance: its plugins are unloaded, then
\* commandRegistry.clear()
DestroyOther ==
    /\ Quiet
    /\ other.live
    /\ registry' = [n \in {} |-> ""]
    /\ other' = [live |-> FALSE, plugins |-> {}]
    /\ UNCHANGED <<selector, root, config, plugins, cache, now, executionDepth, run, events,
                   calls, log, detached, hooks, lastCall, parser, cacheCall>>

\* The selectors of the plugin behaviours: a call its command rejects, a
\* call of a plugin's command, and a property read.
PluginSelectors ==
    {[kind |-> "pipeline", commands |-> p] :
        p \in {<<Fn("getProp", <<>>)>>, <<Fn("boom", <<>>)>>, <<Prop("textContent")>>}}

PluginInit ==
    /\ selector \in PluginSelectors
    /\ root = El("li2")
    /\ config \in Configs
    /\ config.maxDepth = MaxDepthDefault
    /\ ~config.cacheEnabled
    /\ Constructed
    /\ parser = NoParser
    /\ cacheCall = NoCacheCall

PluginNext ==
    \/ Execute("A")
    \/ Resume("A")
    \/ Settle("A")
    \/ \E id \in PluginIds : LoadPluginOf(id)
    \/ \E name \in {"P", "Q", "Bad"} : UnloadPlugin(name)
    \/ ConstructOther
    \/ \E id \in OtherPluginIds : OtherLoadPlugin(id)
    \/ \E id \in OtherPluginIds : OtherUnloadPlugin(id)
    \/ DestroyOther

PluginSpec == PluginInit /\ [][PluginNext]_vars


\* The number of calls a lifecycle function of a plugin gets in one load or
\* unload that reaches it: one when the plugin has the function.
Has(fn) == IF fn = "none" THEN 0 ELSE 1

\* What loadPlugin(P) promises once it has returned.
Loaded(id) ==
    /\ PluginOf(id).name \in getLoadedPlugins'
    /\ DOMAIN PluginOf(id).commands \subseteq getAvailableCommands'
    /\ lastCall'.initialize = Has(PluginOf(id).initialize)

\* What unloadPlugin promises once it has returned true for the plugin `id`.
Unloaded(id) ==
    /\ PluginOf(id).name \notin getLoadedPlugins'
    /\ DOMAIN PluginOf(id).commands \cap getAvailableCommands' = {}
    /\ lastCall'.destroy = Has(PluginOf(id).destroy)

\* The plugin stored under a name
StoredAs(name) == CHOOSE id \in plugins : PluginOf(id).name = name

\* C17 as stated: whenever loadPlugin(P) returns, P's name is loaded, all of
\* P's commands are available and P's initialize was called once (in this
\* call, or in the earlier one that stored this very plugin); whenever
\* unloadPlugin returns true the plugin is gone with its commands and its
\* destroy was called once; unloadPlugin of a name not loaded returns false.
C17_LoadAlwaysRegisters ==
    [][/\ \A id \in PluginIds :
            LoadPluginOf(id) /\ lastCall'.ended = "returned" =>
                IF id \in plugins
                THEN /\ PluginOf(id).name \in getLoadedPlugins'
                     /\ lastCall'.initialize = 0
                ELSE Loaded(id)
       /\ \A name \in {"P", "Q", "Bad"} :
            UnloadPlugin(name) =>
                IF name \in getLoadedPlugins
                THEN lastCall'.ended = "true" => Unloaded(StoredAs(name))
                ELSE lastCall'.ended = "false"]_vars

\* C17: when loadPlugin(P) returns and no plugin was loaded under P's name
\* before the call, P's name is loaded, all of P's commands are available
\* and P's initialize was called once; when a plugin was already loaded
\* under that name the call returns and changes nothing, P's initialize is
\* not called; when unloadPlugin returns true the plugin is gone with its
\* commands and its destroy was called once; unloadPlugin of a name not
\* loaded returns false and changes nothing.
C17_PluginLifecycle ==
    [][/\ \A id \in PluginIds :
            LoadPluginOf(id) /\ lastCall'.ended = "returned" =>
                IF PluginOf(id).name \in getLoadedPlugins
                THEN /\ registry' = registry /\ plugins' = plugins /\ hooks' = hooks
                     /\ lastCall'.initialize = 0
                ELSE Loaded(id)
       /\ \A name \in {"P", "Q", "Bad"} :
            UnloadPlugin(name) =>
                IF name \in getLoadedPlugins
                THEN lastCall'.ended = "true" => Unloaded(StoredAs(name))
                ELSE /\ lastCall'.ended = "false"
                     /\ registry' = registry /\ plugins' = plugins]_vars

\* Q was loaded, a second plugin of the same name was refused, and Q has
\* just been unloaded: destroy ran and its command is gone.
C17_Witness ==
    /\ lastCall.op = "unloadPlugin"
    /\ lastCall.plugin = "Q"
    /\ lastCall.ended = "true"
    /\ lastCall.destroy = 1
    /\ "shout" \notin getAvailableCommands
    /\ "Q" \notin getLoadedPlugins
    /\ "P" \in getLoadedPlugins


\* C18: when loadPlugin raises because the plugin's initialize threw, the
\* plugin is not listed as loaded and the registry and the listeners are as
\* they were before the call: none of its commands and none of its hooks
\* remain registered.
C18_FailedLoadLeavesNothing ==
    [][\A id \in PluginIds :
            LoadPluginOf(id) /\ lastCall'.ended = "raised" =>
                /\ PluginOf(id).name \notin getLoadedPlugins'
                /\ getAvailableCommands' = getAvailableCommands
                /\ hooks' = hooks]_vars


\* C19: constructing a second instance, loading or unloading a plugin on it
\* and destroying it leave the commands available to the first instance as
\* they were, so every command of a plugin the first instance holds loaded
\* stays registered.
C19_RegistryOwnedPerInstance ==
    [][/\ other' # other => getAvailableCommands' = getAvailableCommands
       /\ \A id \in plugins' :
            DOMAIN PluginOf(id).commands \subseteq getAvailableCommands']_vars


\* The registry name and the arguments executeCommand dispatches a command
\* under.
DispatchName(command) ==
    CASE command.type = "function" -> command.name
      [] command.type = "css-selector" -> "css-selector"
      [] command.type = "property" -> "property"
      [] OTHER -> "array-access"

DispatchArgs(command) ==
    CASE command.type = "function" -> command.args
      [] command.type = "css-selector" -> <<Str(command.selector)>>
      [] command.type = "property" -> <<Str(command.name)>>
      [] OTHER -> <<Num(command.index)>>

\* executeCommand hands the command to commandRegistry.execute: always for
\* the three built-in command types, and for a function call when the value
\* is present, has no such method and the name is registered.
ViaRegistry(command, value) ==
    \/ command.type # "function"
    \/ /\ ~IsNullish(value)
       /\ ~isNativeMethod(value, command.name)
       /\ command.name \in DOMAIN registry

\* The first stage of the call is awaiting a registry dispatch.
Dispatched == A.pc = "stage" /\ A.i = 1 /\ ViaRegistry(A.commands[1], A.value)

\* C20: a command dispatched through the registry under a name that is not
\* registered throws an execution error; under a registered name whose
\* validate rejects the arguments it throws a validation error and the
\* handler's execute has no effect; otherwise the outcome is the handler's,
\* a value it returns is returned and an error it throws is thrown as an
\* execution error that carries the original error and the command's name.
C20_RegistryDispatch ==
    Dispatched =>
        LET command == A.commands[1]
            name == DispatchName(command)
            args == DispatchArgs(command)
            ctx == Ctx(A.value, FALSE, NoError, A.config, 1)
        IN  IF name \notin DOMAIN registry
            THEN A.pend.thrown /\ A.pend.error.code = "EXECUTION_ERROR"
            ELSE IF HandlerRejects(registry[name], args)
            THEN /\ A.pend.thrown
                 /\ A.pend.error = ValidationError("invalid-arguments", 1)
                 /\ ~A.had
            ELSE IF HandlerExecute(registry[name], ctx, args).thrown
            THEN /\ A.pend.thrown
                 /\ A.pend.error.code = "EXECUTION_ERROR"
                 /\ A.pend.error.kind = HandlerExecute(registry[name], ctx, args).error.kind
                 /\ A.pend.error.by = name
            ELSE /\ ~A.pend.thrown
                 /\ A.pend.value = HandlerExecute(registry[name], ctx, args).value

\* The plugin command boom threw inside the registry and the engine holds
\* the wrapped execution error.
C20_Witness ==
    /\ Dispatched
    /\ A.commands[1] = Fn("boom", <<>>)
    /\ A.pend.thrown
    /\ A.pend.error.code = "EXECUTION_ERROR"
    /\ A.pend.error.kind = "handler-threw"
    /\ A.pend.error.by = "boom"


\* matchProp called with a pattern new RegExp rejects
InvalidMatchProp == Fn("matchProp", <<Str("textContent"), Str("(")>>)

\* C21: in every error-handling mode a call that ran matchProp with an
\* invalid pattern as its first stage (the depth guard let it through)
\* returns a failed result whose error is a validation error.
C21_InvalidPatternIsValidationError ==
    /\ A.pc = "done"
    /\ Len(A.commands) > 0
    /\ A.commands[1] = InvalidMatchProp
    /\ A.config.maxDepth = MaxDepthDefault
    =>
        ~A.result.success /\ A.result.error.code = "VALIDATION_ERROR"


(***************************************************************************)
(* The tokenizer.  A string is a sequence of one-character strings;        *)
(* positions count from 1.  A token carries its type, its value, the       *)
(* position it starts at and `next`, the tokenizer's position after it.    *)
(***************************************************************************)
Whitespace == {" "}
Digits == {"0", "1"}
Alpha == {"a", "b", "f"}

\* Tokenizer.isDigit / isAlphaNumeric / isWhitespace; \w of the second rule
isAlphaNumeric(ch) == ch \in Alpha \cup Digits
WordChar(ch) == isAlphaNumeric(ch) \/ ch = "_"

\* String.prototype.trim
RECURSIVE TrimStart(_)
TrimStart(s) == IF s # <<>> /\ Head(s) \in Whitespace THEN TrimStart(Tail(s)) ELSE s

RECURSIVE TrimEnd(_)
TrimEnd(s) ==
    IF s # <<>> /\ s[Len(s)] \in Whitespace THEN TrimEnd(SubSeq(s, 1, Len(s) - 1)) ELSE s

Trim(s) == TrimEnd(TrimStart(s))

Token(type, value, position, next) ==
    [type |-> type, value |-> value, position |-> position, next |-> next]

\* Tokenizer.skipWhitespace: the first position from p on that holds no whitespace
RECURSIVE skipWhitespace(_, _)
skipWhitespace(s, p) ==
    IF p <= Len(s) /\ s[p] \in Whitespace THEN skipWhitespace(s, p + 1) ELSE p

\* The escape sequences of tokenizeString
Unescape(ch) ==
    CASE ch = "n" -> "\n"
      [] ch = "t" -> "\t"
      [] ch = "r" -> "\r"
      [] OTHER -> ch

\* Tokenizer.tokenizeString from the character after the opening quote
RECURSIVE ScanString(_, _, _, _)
ScanString(s, p, quote, value) ==
    IF p > Len(s) THEN [closed |-> FALSE, value |-> value, next |-> p]
    ELSE IF s[p] = quote THEN [closed |-> TRUE, value |-> value, next |-> p + 1]
    ELSE IF s[p] = "\\" /\ p + 1 <= Len(s)
    THEN ScanString(s, p + 2, quote, Append(value, Unescape(s[p + 1])))
    ELSE ScanString(s, p + 1, quote, Append(value, s[p]))

\* The loop of Tokenizer.tokenizeNumber: digits and dots
RECURSIVE ScanNumber(_, _)
ScanNumber(s, p) ==
    IF p <= Len(s) /\ (s[p] \in Digits \/ s[p] = ".") THEN ScanNumber(s, p + 1) ELSE p

\* Tokenizer.tokenizeNumber: the position after the number that starts at p
tokenizeNumber(s, p) == ScanNumber(s, IF s[p] = "-" THEN p + 1 ELSE p)

\* The first loop of tokenizeIdentifier: the position after the first word
RECURSIVE ScanWord(_, _, _)
ScanWord(s, p, start) ==
    IF /\ p <= Len(s)
       /\ \/ isAlphaNumeric(s[p])
          \/ s[p] \in {"_", "-"}
          \/ s[p] \in {".", "#"} /\ p = start
    THEN ScanWord(s, p + 1, start)
    ELSE p

\* The position of the next pipe from p on, or the position after the end
RECURSIVE SegmentEnd(_, _)
SegmentEnd(s, p) == IF p <= Len(s) /\ s[p] # "|" THEN SegmentEnd(s, p + 1) ELSE p

\* The characters of /[.#\s>+~[\]:]/
CssChars == {".", "#", ">", "+", "~", "[", "]", ":"} \cup Whitespace

\* /^[a-zA-Z_][\w-]*$/
SimpleWord(seg) ==
    /\ seg # <<>>
    /\ seg[1] \in Alpha \cup {"_"}
    /\ \A k \in 2..Len(seg) : WordChar(seg[k]) \/ seg[k] = "-"

\* looksLikeCssSelector taking a simple word for a CSS query at any position.
looksLikeCssSelectorAnywhere(s, scanStartPos, count) ==
    LET segment == Trim(SubSeq(s, scanStartPos, SegmentEnd(s, scanStartPos) - 1))
    IN  IF segment = <<>> THEN FALSE
        ELSE IF \E k \in 1..Len(segment) : segment[k] \in CssChars THEN TRUE
        ELSE SimpleWord(segment)

\* Tokenizer.looksLikeCssSelector(scanStartPos) when `count` tokens exist
looksLikeCssSelector(s, scanStartPos, count) ==
    LET segment == Trim(SubSeq(s, scanStartPos, SegmentEnd(s, scanStartPos) - 1))
    IN  IF segment = <<>> THEN FALSE
        ELSE IF \E k \in 1..Len(segment) : segment[k] \in CssChars THEN TRUE
        ELSE IF SimpleWord(segment) THEN count = 0
        ELSE FALSE

\* Tokenizer.tokenizeIdentifier at position start when `count` tokens exist
tokenizeIdentifier(s, start, count) ==
    LET wordEnd == ScanWord(s, start, start)
        value == SubSeq(s, start, wordEnd - 1)
        peekPos == skipWhitespace(s, wordEnd)
    IN  IF peekPos <= Len(s) /\ s[peekPos] = "("
        THEN Token("FUNCTION_NAME", value, start, wordEnd)
        ELSE IF looksLikeCssSelector(s, start, count)
        THEN Token("CSS_SELECTOR", Trim(SubSeq(s, start, SegmentEnd(s, start) - 1)),
                   start, SegmentEnd(s, start))
        ELSE Token("PROPERTY", value, start, wordEnd)

\* The single-character tokens of the switch in tokenize
Punctuation(ch) ==
    CASE ch = "|" -> "PIPE"
      [] ch = "(" -> "OPEN_PAREN"
      [] ch = ")" -> "CLOSE_PAREN"
      [] ch = "[" -> "OPEN_BRACKET"
      [] ch = "]" -> "CLOSE_BRACKET"
      [] ch = "," -> "COMMA"
      [] OTHER -> ""

\* The loop of Tokenizer.tokenize from position pos with the tokens so far:
\* the token list ending in EOF, or the error thrown.
RECURSIVE tokenizeFrom(_, _, _)
tokenizeFrom(s, pos, tokens) ==
    LET p == skipWhitespace(s, pos)
    IN  IF p > Len(s)
        THEN [ok |-> TRUE, tokens |-> Append(tokens, Token("EOF", <<>>, p, p)), error |-> ""]
        ELSE IF Punctuation(s[p]) # ""
        THEN tokenizeFrom(s, p + 1, Append(tokens, Token(Punctuation(s[p]), <<s[p]>>, p, p + 1)))
        ELSE IF s[p] \in {"\"", "'"}
        THEN IF ScanString(s, p + 1, s[p], <<>>).closed
             THEN tokenizeFrom(s, ScanString(s, p + 1, s[p], <<>>).next,
                               Append(tokens, Token("STRING", ScanString(s, p + 1, s[p], <<>>).value,
                                                    p, ScanString(s, p + 1, s[p], <<>>).next)))
             ELSE [ok |-> FALSE, tokens |-> <<>>, error |-> "unterminated-string"]
        ELSE IF s[p] \in Digits \/ (s[p] = "-" /\ p + 1 <= Len(s) /\ s[p + 1] \in Digits)
        THEN tokenizeFrom(s, tokenizeNumber(s, p),
                          Append(tokens, Token("NUMBER", SubSeq(s, p, tokenizeNumber(s, p) - 1),
                                               p, tokenizeNumber(s, p))))
        ELSE IF s[p] \in Alpha \cup {"_", "-", ".", "#"}
        THEN tokenizeFrom(s, tokenizeIdentifier(s, p, Len(tokens)).next,
                          Append(tokens, tokenizeIdentifier(s, p, Len(tokens))))
        ELSE [ok |-> FALSE, tokens |-> <<>>, error |-> "unexpected-character"]

\* new Tokenizer(input).tokenize()
tokenize(input) == tokenizeFrom(Trim(input), 1, <<>>)


(***************************************************************************)
(* The parser: recursive descent over the token list.  A command is a      *)
(* record of one shape; name, selector and the arguments are token values. *)
(***************************************************************************)
Command(type, name, query, args, index) ==
    [type |-> type, name |-> name, selector |-> query, args |-> args, index |-> index]

ParseFailed(message) == [ok |-> FALSE, command |-> <<>>, next |-> 0, error |-> message]
Parsed(command, next) == [ok |-> TRUE, command |-> command, next |-> next, error |-> ""]

\* Parser.isAtEnd at position p
isAtEnd(tokens, p) == p > Len(tokens) \/ tokens[p].type = "EOF"

\* Parser.match at position p
match(tokens, p, type) == tokens[p].type = type

\* The value of a digit, and the leading digits of a text as a number
DigitValue(ch) == IF ch = "1" THEN 1 ELSE 0

RECURSIVE LeadingDigits(_, _, _)
LeadingDigits(text, p, acc) ==
    IF p <= Len(text) /\ text[p] \in Digits
    THEN LeadingDigits(text, p + 1, 10 * acc + DigitValue(text[p]))
    ELSE [n |-> acc, next |-> p]

\* Number.parseInt(text, 10) of a token value
parseIntOf(text) ==
    LET negative == text # <<>> /\ text[1] = "-"
        from == IF negative THEN 2 ELSE 1
        digits == LeadingDigits(text, from, 0)
    IN  [nan |-> digits.next = from, n |-> IF negative THEN 0 - digits.n ELSE digits.n]

\* The argument loop of Parser.parseFunction from position p with the
\* arguments so far: the position of the closing parenthesis or of the end.
RECURSIVE parseArguments(_, _, _)
parseArguments(tokens, p, args) ==
    IF match(tokens, p, "CLOSE_PAREN") \/ isAtEnd(tokens, p)
    THEN [ok |-> TRUE, args |-> args, next |-> p, error |-> ""]
    ELSE IF tokens[p].type \notin {"STRING", "NUMBER", "PROPERTY"}
    THEN [ok |-> FALSE, args |-> <<>>, next |-> 0, error |-> "expected-argument"]
    ELSE IF match(tokens, p + 1, "COMMA")
    THEN parseArguments(tokens, p + 2, Append(args, tokens[p].value))
    ELSE IF ~match(tokens, p + 1, "CLOSE_PAREN")
    THEN [ok |-> FALSE, args |-> <<>>, next |-> 0, error |-> "expected-comma-or-close"]
    ELSE parseArguments(tokens, p + 1, Append(args, tokens[p].value))

\* Parser.parseFunction at the FUNCTION_NAME token at position p
parseFunction(tokens, p) ==
    IF ~match(tokens, p + 1, "OPEN_PAREN") THEN ParseFailed("expected-open-paren")
    ELSE IF ~parseArguments(tokens, p + 2, <<>>).ok
    THEN ParseFailed(parseArguments(tokens, p + 2, <<>>).error)
    ELSE IF ~match(tokens, parseArguments(tokens, p + 2, <<>>).next, "CLOSE_PAREN")
    THEN ParseFailed("expected-close-paren")
    ELSE Parsed(Command("function", tokens[p].value, <<>>,
                        parseArguments(tokens, p + 2, <<>>).args, 0),
                parseArguments(tokens, p + 2, <<>>).next + 1)

\* Parser.advance from position p
advance(tokens, p) == IF isAtEnd(tokens, p) THEN p ELSE p + 1

\* Parser.parseArrayAccess at the OPEN_BRACKET token at position p
parseArrayAccess(tokens, p) ==
    LET q == advance(tokens, p)
    IN  IF ~match(tokens, q, "NUMBER") THEN ParseFailed("expected-number")
        ELSE IF parseIntOf(tokens[q].value).nan THEN ParseFailed("invalid-number")
        ELSE IF ~match(tokens, q + 1, "CLOSE_BRACKET") THEN ParseFailed("expected-close-bracket")
        ELSE Parsed(Command("array-access", <<>>, <<>>, <<>>, parseIntOf(tokens[q].value).n),
                    advance(tokens, q + 1))

\* Parser.parseCommand at position p
parseCommand(tokens, p) ==
    CASE tokens[p].type = "CSS_SELECTOR" ->
            Parsed(Command("css-selector", <<>>, tokens[p].value, <<>>, 0), p + 1)
      [] tokens[p].type = "FUNCTION_NAME" -> parseFunction(tokens, p)
      [] tokens[p].type = "PROPERTY" ->
            Parsed(Command("property", tokens[p].value, <<>>, <<>>, 0), p + 1)
      [] tokens[p].type = "OPEN_BRACKET" -> parseArrayAccess(tokens, p)
      [] OTHER -> ParseFailed("unexpected-token")

\* Parser.parseCommands from position p with the commands so far
RECURSIVE parseCommands(_, _, _)
parseCommands(tokens, p, commands) ==
    IF isAtEnd(tokens, p) THEN [ok |-> TRUE, commands |-> commands, error |-> ""]
    ELSE IF ~parseCommand(tokens, p).ok
    THEN [ok |-> FALSE, commands |-> <<>>, error |-> parseCommand(tokens, p).error]
    ELSE parseCommands(tokens,
                       IF match(tokens, parseCommand(tokens, p).next, "PIPE")
                       THEN parseCommand(tokens, p).next + 1
                       ELSE parseCommand(tokens, p).next,
                       Append(commands, parseCommand(tokens, p).command))

\* Parser.parse(input): never throws
parse(input) ==
    IF ~tokenize(input).ok
    THEN [commands |-> <<>>, isValid |-> FALSE, errors |-> <<tokenize(input).error>>]
    ELSE IF ~parseCommands(tokenize(input).tokens, 1, <<>>).ok
    THEN [commands |-> <<>>, isValid |-> FALSE,
          errors |-> <<parseCommands(tokenize(input).tokens, 1, <<>>).error>>]
    ELSE [commands |-> parseCommands(tokenize(input).tokens, 1, <<>>).commands,
          isValid |-> TRUE, errors |-> <<>>]


(***************************************************************************)
(* Parsing as a state machine: a selector string is handed to parse, then  *)
(* edited by one whitespace character between two of its tokens and        *)
(* handed to parse again.                                                  *)
(***************************************************************************)
Alphabet == {"a", "(", ")", "|", " ", "\"", "."}

\* Selector strings longer than MaxInput that the parser's tests and the
\* README use, in this alphabet and with brackets, digits and commas.
Examples ==
    {<<"f", "(", "a", ",", "b", ")">>,
     <<"a", "|", "[", "0", "]">>,
     <<"a", "|", "[", "0", "]", "b">>,
     <<"a", " ", "|", " ", "|", " ", "b">>,
     <<"f", "(", "\"", "a", "\"">>,
     <<"a", "|", "b", " ", "a", "|", "b">>}

Inputs == UNION {[1..k -> Alphabet] : k \in 0..MaxInput} \cup Examples

\* The positions of the trimmed input where a token starts right after a
\* token, neither of them a CSS query segment.
TokenStarts(input) ==
    LET t == tokenize(input)
    IN  IF ~t.ok THEN {}
        ELSE {t.tokens[i + 1].position : i \in
                {j \in 1..(Len(t.tokens) - 2) :
                    /\ t.tokens[j].type # "CSS_SELECTOR"
                    /\ t.tokens[j + 1].type # "CSS_SELECTOR"}}

\* The positions of the trimmed input that hold whitespace right after a
\* token and before another, neither of them a CSS query segment.
TokenGaps(input) ==
    LET t == tokenize(input)
    IN  IF ~t.ok THEN {}
        ELSE {t.tokens[i].next : i \in
                {j \in 1..(Len(t.tokens) - 2) :
                    /\ t.tokens[j].type # "CSS_SELECTOR"
                    /\ t.tokens[j + 1].type # "CSS_SELECTOR"
                    /\ t.tokens[j].next < t.tokens[j + 1].position}}

InsertAt(s, k) == SubSeq(s, 1, k - 1) \o <<" ">> \o SubSeq(s, k, Len(s))
RemoveAt(s, k) == SubSeq(s, 1, k - 1) \o SubSeq(s, k + 1, Len(s))

\* parser.parse(input)
ParseInput ==
    /\ ~parser.parsed
    /\ parser' = [parser EXCEPT !.parsed = TRUE, !.result = parse(parser.input)]
    /\ UNCHANGED <<selector, root, config, registry, plugins, cache, now, executionDepth, run,
                   events, calls, log, detached, hooks, lastCall, other, cacheCall>>

\* parser.parse of the input with one whitespace character more between
\* two tokens
InsertWhitespace ==
    /\ parser.parsed
    /\ parser.edits < MaxEdits
    /\ \E k \in TokenStarts(parser.input) :
         parser' = [parser EXCEPT !.input = InsertAt(Trim(parser.input), k),
                                  !.result = parse(InsertAt(Trim(parser.input), k)),
                                  !.edits = @ + 1]
    /\ UNCHANGED <<selector, root, config, registry, plugins, cache, now, executionDepth, run,
                   events, calls, log, detached, hooks, lastCall, other, cacheCall>>

\* parser.parse of the input with one whitespace character less between
\* two tokens
RemoveWhitespace ==
    /\ parser.parsed
    /\ parser.edits < MaxEdits
    /\ \E k \in TokenGaps(parser.input) :
         parser' = [parser EXCEPT !.input = RemoveAt(Trim(parser.input), k),
                                  !.result = parse(RemoveAt(Trim(parser.input), k)),
                                  !.edits = @ + 1]
    /\ UNCHANGED <<selector, root, config, registry, plugins, cache, now, executionDepth, run,
                   events, calls, log, detached, hooks, lastCall, other, cacheCall>>

ParseInit ==
    /\ selector = [kind |-> "empty", commands |-> <<>>]
    /\ root = Doc
    /\ config = CHOOSE c \in Configs : TRUE
    /\ Constructed
    /\ parser \in {[NoParser EXCEPT !.input = s] : s \in Inputs}
    /\ cacheCall = NoCacheCall

ParseNext == ParseInput \/ InsertWhitespace \/ RemoveWhitespace

ParseSpec == ParseInit /\ [][ParseNext]_vars


\* The number of occurrences of the character ch in s
Count(s, ch) == Cardinality({k \in 1..Len(s) : s[k] = ch})

\* An opening parenthesis outside any quoted literal that nothing closes:
\* the string has a "(" and neither a ")" nor a quote.
UnmatchedParen(s) ==
    Count(s, "(") > 0 /\ Count(s, ")") = 0 /\ Count(s, "\"") = 0 /\ Count(s, "'") = 0

\* A quote that nothing closes: the only quote character of the string.
UnterminatedQuote(s) == Count(s, "\"") + Count(s, "'") = 1

\* C22: parse of a string with an unmatched "(" or an unterminated quote,
\* wherever it occurs, returns isValid = false, at least one error and no
\* commands.
C22_UnbalancedIsInvalid ==
    parser.parsed /\ (UnmatchedParen(parser.input) \/ UnterminatedQuote(parser.input)) =>
        /\ ~parser.result.isValid
        /\ Len(parser.result.errors) >= 1
        /\ parser.result.commands = <<>>


\* The pipes of a token list separate its stages one by one: no pipe is
\* leading, trailing or doubled, and every token that starts a stage other
\* than the first follows a pipe (a bare name may instead be an argument,
\* after "(" or ",").
PipesSeparateStages(tokens) ==
    LET n == Len(tokens) - 1
    IN  /\ n > 0 => tokens[1].type # "PIPE" /\ tokens[n].type # "PIPE"
        /\ \A i \in 2..n :
            /\ tokens[i].type = "PIPE" => tokens[i - 1].type # "PIPE"
            /\ tokens[i].type \in {"CSS_SELECTOR", "FUNCTION_NAME", "OPEN_BRACKET"} =>
                    tokens[i - 1].type = "PIPE"
            /\ tokens[i].type = "PROPERTY" =>
                    tokens[i - 1].type \in {"PIPE", "OPEN_PAREN", "COMMA"}

\* C23: parse returns isValid = true only for stages separated by exactly
\* one pipe each, with no leading, trailing or doubled pipe; every string it
\* rejects gets exactly one error message.
C23_OnlyPipelinesAccepted ==
    parser.parsed =>
        IF parser.result.isValid
        THEN PipesSeparateStages(tokenize(parser.input).tokens)
        ELSE Len(parser.result.errors) = 1


\* C24: one whitespace character more or less between two tokens, outside
\* a CSS query segment and outside a quoted literal, leaves the validity
\* and the command list of the parse result as they were.
C24_WhitespaceInsignificant ==
    [][parser'.edits > parser.edits =>
            /\ parser'.result.isValid = parser.result.isValid
            /\ parser'.result.commands = parser.result.commands]_vars


\* The segments of a tokenized string: the text from the start of the
\* string or from behind a pipe token up to the next "|" character (one
\* inside a quoted literal included) or the end of the string, as
\* [from, to] positions of the trimmed input.
Segments(s, tokens) ==
    LET pipes == {tokens[i].position : i \in {j \in 1..Len(tokens) : tokens[j].type = "PIPE"}}
        bars == {k \in 1..Len(s) : s[k] = "|"}
        starts == {1} \cup {p + 1 : p \in pipes}
        Until(b) == IF \E p \in bars : p >= b
                    THEN (CHOOSE p \in bars : p >= b /\ \A q \in bars : q >= b => p <= q) - 1
                    ELSE Len(s)
    IN  {<<b, Until(b)>> : b \in starts}

\* The segment is tokenized as the one token `type` holding all its text.
OneToken(s, tokens, seg, type) ==
    \E i \in 1..Len(tokens) :
        /\ tokens[i].position = skipWhitespace(s, seg[1])
        /\ tokens[i].type = type
        /\ tokens[i].value = Trim(SubSeq(s, seg[1], seg[2]))

\* The segment is a single bare word.
BareWord(s, seg) == SimpleWord(Trim(SubSeq(s, seg[1], seg[2])))

\* The segment contains one of . # whitespace > + ~ [ ] :
HasCssChar(s, seg) ==
    \E k \in 1..Len(Trim(SubSeq(s, seg[1], seg[2]))) :
        Trim(SubSeq(s, seg[1], seg[2]))[k] \in CssChars

\* The segment starts with a name that is not the name of an invocation:
\* a letter, "_", "-", "." or "#" (not the sign of a number), and no "("
\* after its first word.
NameLed(s, seg) ==
    LET text == Trim(SubSeq(s, seg[1], seg[2]))
        after == skipWhitespace(text, ScanWord(text, 1, 1))
    IN  /\ text # <<>>
        /\ text[1] \in Alpha \cup {"_", "-", ".", "#"}
        /\ ~(text[1] = "-" /\ Len(text) > 1 /\ text[2] \in Digits)
        /\ ~(after <= Len(text) /\ text[after] = "(")

\* A bare-word segment is a CSS query when its token is the first of the
\* input and a property name otherwise.
BareWordByPosition(s, tokens) ==
    \A seg \in Segments(s, tokens) :
        BareWord(s, seg) =>
            IF tokens[1].position = skipWhitespace(s, seg[1])
            THEN OneToken(s, tokens, seg, "CSS_SELECTOR")
            ELSE OneToken(s, tokens, seg, "PROPERTY")

\* C25 as stated: of a string the tokenizer accepts, a bare-word segment is
\* a CSS query exactly when it is the first token of the input and a
\* property name otherwise, and every segment that contains one of
\* . # whitespace > + ~ [ ] : is one CSS query token holding the whole
\* segment.
C25_CssCharMakesCssQuery ==
    parser.parsed /\ tokenize(parser.input).ok =>
        /\ BareWordByPosition(Trim(parser.input), tokenize(parser.input).tokens)
        /\ \A seg \in Segments(Trim(parser.input), tokenize(parser.input).tokens) :
              HasCssChar(Trim(parser.input), seg) =>
                  OneToken(Trim(parser.input), tokenize(parser.input).tokens, seg, "CSS_SELECTOR")

\* C25: of a string the tokenizer accepts, a bare-word segment is a CSS
\* query exactly when it is the first token of the input and a property
\* name otherwise, and every segment that starts with a name other than an
\* invocation's and contains one of . # whitespace > + ~ [ ] : is one CSS
\* query token holding the whole segment, whatever its position.
C25_Classification ==
    parser.parsed /\ tokenize(parser.input).ok =>
        /\ BareWordByPosition(Trim(parser.input), tokenize(parser.input).tokens)
        /\ \A seg \in Segments(Trim(parser.input), tokenize(parser.input).tokens) :
              NameLed(Trim(parser.input), seg) /\ HasCssChar(Trim(parser.input), seg) =>
                  OneToken(Trim(parser.input), tokenize(parser.input).tokens, seg, "CSS_SELECTOR")

\* "a|b a|b" has been parsed: the first segment is a CSS query, the second
\* (with a space) a CSS query too, the third a property name.
C25_Witness ==
    /\ parser.parsed
    /\ parser.input = <<"a", "|", "b", " ", "a", "|", "b">>
    /\ parser.result.isValid
    /\ parser.result.commands[1].type = "css-selector"
    /\ parser.result.commands[2].type = "css-selector"
    /\ parser.result.commands[2].selector = <<"b", " ", "a">>
    /\ parser.result.commands[3].type = "property"


(***************************************************************************)
(* The built-in commands stage by stage: calls on the document whose       *)
(* pipelines put an index access or a property read behind a first stage   *)
(* that yields a collection, a string, null or undefined.                  *)
(***************************************************************************)
\* The pipelines: first stages that yield a collection, a string, null or
\* undefined; second stages that index with -(MaxIndex + 1)..MaxIndex or
\* read a property.
StagePipelines ==
    LET first == {Css("li"), Css("ul"), Css(".missing"), Prop("textContent"),
                  Fn("normalize", <<>>)}
        second == {Idx(i) : i \in (0 - (MaxIndex + 1))..MaxIndex}
                  \cup {Prop("textContent"), Prop("extra"), Prop("nope"),
                        Prop("nextElementSibling"), Fn("getProp", <<Str("extra")>>)}
        filters == {Fn(f, <<Str(name), Str(arg)>>) :
                        f \in {"propIncludes", "propIncludesLowercase", "matchProp"},
                        name \in {"textContent", "nextElementSibling", "nope"},
                        arg \in {"Item", "^Item"}}
    IN  {<<f>> : f \in first \cup second}
        \cup {<<f, g>> : f \in first, g \in second}
        \cup {<<Css("ul"), g>> : g \in filters}
        \cup {<<f, Css(g)>> : f \in {Css("ul"), Css("ul, li"), Css("li")},
                              g \in {"li", "li + li", ".missing"}}
        \cup {<<Css("ul"), Prop("textContent"), g>> : g \in filters}
        \cup {<<Fn("normalize", <<>>), Prop("textContent"), Prop("textContent")>>,
              <<Css("li"), Prop("nextElementSibling"), Prop("textContent")>>}

StageInit ==
    /\ selector \in {[kind |-> "pipeline", commands |-> p] : p \in StagePipelines}
    /\ root = Doc
    /\ config \in Configs
    /\ config.maxDepth = MaxDepthDefault
    /\ ~config.cacheEnabled
    /\ Constructed
    /\ parser = NoParser
    /\ cacheCall = NoCacheCall

StageNext == Execute("A") \/ Resume("A") \/ Settle("A")

StageSpec == StageInit /\ [][StageNext]_vars

\* The call is suspended on stage i, which no soft error preceded: either
\* none is recorded, or the one recorded is the stage's own.
AtStage(i) ==
    A.pc = "stage" /\ A.i = i /\ (A.had => A.soft.at = i)

\* The stage the call is suspended on faulted: its soft error is recorded
\* and its outcome is the one of the error-handling mode.
StageFaulted ==
    /\ A.had
    /\ A.soft.at = A.i
    /\ A.soft.code = "EXECUTION_ERROR"
    /\ CASE A.config.errorHandling = "throw" -> A.pend.thrown
         [] A.config.errorHandling = "return-default" ->
                ~A.pend.thrown /\ A.pend.value = A.config.defaultValue
         [] OTHER -> ~A.pend.thrown /\ A.pend.value = Null

\* C26: an index access on a collection of length N yields element i for
\* 0 <= i < N and element N + i for -N <= i < 0; for every other index,
\* and on a value that is not a collection, it records a soft error and
\* yields null, the default, or throws, as the mode says.
C26_IndexAccess ==
    \A i \in 1..Len(A.commands) :
        AtStage(i) /\ A.commands[i].type = "array-access" =>
            LET index == A.commands[i].index
                N == Len(A.value.items)
            IN  IF IsArray(A.value) /\ 0 <= index /\ index < N
                THEN ~A.had /\ ~A.pend.thrown /\ A.pend.value = A.value.items[index + 1]
                ELSE IF IsArray(A.value) /\ 0 - N <= index /\ index < 0
                THEN ~A.had /\ ~A.pend.thrown /\ A.pend.value = A.value.items[N + index + 1]
                ELSE StageFaulted

\* [-1] on the two <li> elements yielded the second one.
C26_Witness ==
    /\ AtStage(2)
    /\ A.commands = <<Css("li"), Idx(-1)>>
    /\ A.pend.value = El("li2")
    /\ ~A.had


\* The stage the call is suspended on reads a property, as a property
\* command or as getProp(name), from a collection that is not empty.
ReadsFromCollection(i) ==
    /\ AtStage(i)
    /\ \/ A.commands[i].type = "property"
       \/ A.commands[i].type = "function" /\ A.commands[i].name = "getProp"
                                          /\ Len(A.commands[i].args) = 1
    /\ IsArray(A.value)
    /\ Len(A.value.items) > 0

\* The property name of such a stage
ReadName(command) == IF command.type = "property" THEN command.name ELSE command.args[1].s

\* The item lacks the property
Lacks(item, name) == ~(IsObject(item) /\ HasProp(item, name))

\* The element-wise mapping, null for each element that lacks the property
Mapped(items, name) ==
    [k \in 1..Len(items) |-> IF Lacks(items[k], name) THEN Null ELSE ReadProp(items[k], name)]

\* The value of such a stage: the mapping, or null when all of it is null
MappedValue(items, name) ==
    IF \A k \in 1..Len(items) : Mapped(items, name)[k] = Null
    THEN Null
    ELSE Arr(Mapped(items, name))

\* C27 as stated: a property read on a collection returns the element-wise
\* mapping with null for each element lacking the property, null instead
\* of a list of nulls, and records a soft error whenever at least one
\* element lacked the property.
C27_AnyLackingElementIsAnError ==
    \A i \in 1..Len(A.commands) :
        ReadsFromCollection(i) =>
            /\ ~A.pend.thrown
            /\ A.pend.value = MappedValue(A.value.items, ReadName(A.commands[i]))
            /\ (\E k \in 1..Len(A.value.items) :
                    Lacks(A.value.items[k], ReadName(A.commands[i]))) => A.had

\* C27: a property read on a collection returns the element-wise mapping
\* with null for each element lacking the property, null instead of a list
\* of nulls, and records a soft error exactly when at least one element
\* that is neither null nor undefined lacked the property.
C27_PropertyOnCollection ==
    \A i \in 1..Len(A.commands) :
        ReadsFromCollection(i) =>
            /\ ~A.pend.thrown
            /\ A.pend.value = MappedValue(A.value.items, ReadName(A.commands[i]))
            /\ A.had <=>
                  \E k \in 1..Len(A.value.items) :
                      /\ Lacks(A.value.items[k], ReadName(A.commands[i]))
                      /\ ~IsNullish(A.value.items[k])

\* getProp("extra") on the two <li> elements: the first has the property,
\* the second does not; the list keeps its shape and the error is recorded.
C27_Witness ==
    /\ ReadsFromCollection(2)
    /\ A.commands = <<Css("li"), Fn("getProp", <<Str("extra")>>)>>
    /\ A.pend.value = Arr(<<Str("x"), Null>>)
    /\ A.had
    /\ A.soft.kind = "property-missing-on-items"


\* The stage the call is suspended on has yielded undefined.
YieldedUndefined == A.pc = "stage" /\ ~A.pend.thrown /\ A.pend.value = Undefined

\* C30: when a stage other than the last yields undefined and no soft
\* error is recorded, the engine records a soft error for that stage and
\* runs the next stage on null (on the default in return-default mode), or
\* throws in throw mode; an undefined result of the last stage is not
\* promoted: it is the value of the result, whose success is unchanged.
C30_UndefinedPromotion ==
    [][/\ YieldedUndefined /\ run'["A"] # A =>
            IF A.i < Len(A.commands) /\ ~A.had
            THEN IF A.config.errorHandling = "throw"
                 THEN /\ run'["A"].pc = "settle"
                      /\ run'["A"].pend.thrown
                      /\ run'["A"].pend.error = ExecutionError("undefined-result", A.i)
                 ELSE /\ run'["A"].pc = "stage"
                      /\ run'["A"].i = A.i + 1
                      /\ run'["A"].value = IF A.config.errorHandling = "return-default"
                                           THEN A.config.defaultValue ELSE Null
                      /\ run'["A"].had
                      /\ run'["A"].soft = ExecutionError("undefined-result", A.i)
            ELSE A.i = Len(A.commands) =>
                    /\ run'["A"].pc = "settle"
                    /\ ~run'["A"].pend.thrown
                    /\ run'["A"].value = Undefined
                    /\ run'["A"].had = A.had
       /\ A.pc = "settle" /\ ~A.pend.thrown /\ A.value = Undefined /\ run'["A"] # A =>
            /\ run'["A"].pc = "done"
            /\ run'["A"].result.value = Undefined
            /\ run'["A"].result.success = ~A.had]_vars

\* normalize() yielded undefined as the first of two stages: the second
\* stage runs on null and the soft error of stage 1 is recorded.
C30_Witness ==
    /\ A.pc = "stage"
    /\ A.commands = <<Fn("normalize", <<>>), Prop("textContent")>>
    /\ A.i = 2
    /\ A.value = Null
    /\ A.had
    /\ A.soft = ExecutionError("undefined-result", 1)

(***************************************************************************)
(* The Cache on its own: the methods of src/core/cache.ts called directly  *)
(* on the engine's cache, as the unit tests of the cache call them.  The   *)
(* store is a function, so the insertion order of its keys is not kept:    *)
(* keys() is recorded as a set.                                            *)
(***************************************************************************)
CacheKeys == {"key1", "key2"}

CacheValues == {Str("value1"), Str("value2")}

\* The ttl argument of set: left out (0) or given.
CacheTTLs == {0, TTL}

\* Cache.has counting a hit as get does.
CacheHasStoreCounting(store, key, t) == CacheGetStore(store, key, t)

\* Cache.has: the store afterwards (an expired entry is deleted)
CacheHasStore(store, key, t) ==
    IF key \notin DOMAIN store THEN store
    ELSE IF t - store[key].timestamp > store[key].ttl THEN Without(store, key)
    ELSE store

\* Cache.has: the value returned
CacheHasValue(store, key, t) ==
    IF key \notin DOMAIN store THEN FALSE
    ELSE IF t - store[key].timestamp > store[key].ttl THEN FALSE
    ELSE TRUE

\* Cache.cleanup sweeping the entries whose age has reached their ttl.
CacheCleanupEager(store, t) ==
    LET expired == {k \in DOMAIN store : t - store[k].timestamp >= store[k].ttl}
    IN  [k \in DOMAIN store \ expired |-> store[k]]

\* Cache.cleanup: the store afterwards
CacheCleanup(store, t) ==
    LET expired == {k \in DOMAIN store : t - store[k].timestamp > store[k].ttl}
    IN  [k \in DOMAIN store \ expired |-> store[k]]

\* The loop of Cache.getStats over store.values(): field is "hits" or "age".
RECURSIVE Total(_, _, _, _)
Total(store, keys, t, field) ==
    IF keys = {} THEN 0
    ELSE LET k == CHOOSE x \in keys : TRUE
         IN  (IF field = "hits" THEN store[k].hits ELSE t - store[k].timestamp)
                 + Total(store, keys \ {k}, t, field)

\* Cache.getStats (averageAge is totalAge / size, or 0 for an empty store)
CacheGetStats(store, t) ==
    [size |-> Cardinality(DOMAIN store),
     totalHits |-> Total(store, DOMAIN store, t, "hits"),
     totalAge |-> Total(store, DOMAIN store, t, "age")]

UnchangedByCache ==
    UNCHANGED <<selector, root, config, registry, plugins, now, executionDepth, run, events,
                calls, log, detached, hooks, lastCall, other, parser>>

\* cache.set(key, value, ttl)
CacheSetCall(key, value, ttl) ==
    /\ cache' = CacheSet(cache, key, value, ttl, now)
    /\ cacheCall' = [NoCacheCall EXCEPT !.op = "set", !.key = key]
    /\ UnchangedByCache

\* cache.get(key); a behaviour counts at most MaxCalls hits of an entry
CacheGetCall(key) ==
    /\ key \in DOMAIN cache => cache[key].hits < MaxCalls
    /\ cache' = CacheGetStore(cache, key, now)
    /\ cacheCall' = [NoCacheCall EXCEPT !.op = "get", !.key = key,
                                        !.result = CacheGetValue(cache, key, now)]
    /\ UnchangedByCache

\* cache.has(key)
CacheHasCall(key) ==
    /\ cache' = CacheHasStore(cache, key, now)
    /\ cacheCall' = [NoCacheCall EXCEPT !.op = "has", !.key = key,
                                        !.result = Bool(CacheHasValue(cache, key, now))]
    /\ UnchangedByCache

\* cache.delete(key)
CacheDeleteCall(key) ==
    /\ cache' = Without(cache, key)
    /\ cacheCall' = [NoCacheCall EXCEPT !.op = "delete", !.key = key,
                                        !.result = Bool(key \in DOMAIN cache)]
    /\ UnchangedByCache

\* cache.clear()
CacheClearCall ==
    /\ cache' = EmptyStore
    /\ cacheCall' = [NoCacheCall EXCEPT !.op = "clear"]
    /\ UnchangedByCache

\* cache.size()
CacheSizeCall ==
    /\ cacheCall' = [NoCacheCall EXCEPT !.op = "size",
                                        !.result = Num(Cardinality(DOMAIN cache))]
    /\ UNCHANGED cache
    /\ UnchangedByCache

\* cache.keys()
CacheKeysCall ==
    /\ cacheCall' = [NoCacheCall EXCEPT !.op = "keys", !.keys = DOMAIN cache]
    /\ UNCHANGED cache
    /\ UnchangedByCache

\* cache.cleanup()
CacheCleanupCall ==
    /\ cache' = CacheCleanup(cache, now)
    /\ cacheCall' = [NoCacheCall EXCEPT !.op = "cleanup",
                        !.cleaned = Cardinality(DOMAIN cache \ DOMAIN CacheCleanup(cache, now))]
    /\ UnchangedByCache

\* cache.getStats()
CacheGetStatsCall ==
    /\ cacheCall' = [NoCacheCall EXCEPT !.op = "getStats", !.stats = CacheGetStats(cache, now)]
    /\ UNCHANGED cache
    /\ UnchangedByCache

StoreInit ==
    /\ selector = [kind |-> "empty", commands |-> <<>>]
    /\ root = Doc
    /\ config = CHOOSE c \in Configs : TRUE
    /\ Constructed
    /\ parser = NoParser
    /\ cacheCall = NoCacheCall

StoreNext ==
    \/ \E key \in CacheKeys, value \in CacheValues, ttl \in CacheTTLs :
          CacheSetCall(key, value, ttl)
    \/ \E key \in CacheKeys : CacheGetCall(key)
    \/ \E key \in CacheKeys : CacheHasCall(key)
    \/ \E key \in CacheKeys : CacheDeleteCall(key)
    \/ CacheClearCall
    \/ CacheSizeCall
    \/ CacheKeysCall
    \/ CacheCleanupCall
    \/ CacheGetStatsCall
    \/ Tick

StoreSpec == StoreInit /\ [][StoreNext]_vars

\* A step that stores a new entry under key k (cache.set on k).
Replaces(k) == \E value \in CacheValues, ttl \in CacheTTLs : CacheSetCall(k, value, ttl)

\* The entry of key k is stored and its age is at most its ttl.
Fresh(k) == k \in DOMAIN cache /\ now - cache[k].timestamp <= cache[k].ttl

\* The hits of the stored entries, counted one by one.
HitsCounted == UNION {{<<k, n>> : n \in 1..cache[k].hits} : k \in DOMAIN cache}

\* C28: the hit count of an entry that stays stored grows by exactly one on
\* a get that finds it unexpired and is left alone by every other call (has,
\* a get of another key, delete of another key, cleanup, size, keys,
\* getStats, a set of another key); getStats().totalHits is the sum of the
\* hit counts of the stored entries.
C28_HitCounting ==
    /\ [][\A k \in DOMAIN cache \cap DOMAIN cache' :
            ~Replaces(k) =>
                cache'[k].hits = IF CacheGetCall(k) /\ Fresh(k)
                                 THEN cache[k].hits + 1
                                 ELSE cache[k].hits]_vars
    /\ [](cacheCall.op = "getStats" =>
            cacheCall.stats.totalHits = Cardinality(HitsCounted))

\* getStats after two hits of key1 and one of key2
C28_Witness ==
    /\ cacheCall.op = "getStats"
    /\ cacheCall.stats.totalHits = 3
    /\ DOMAIN cache = CacheKeys
    /\ cache["key1"].hits = 2
    /\ cache["key2"].hits = 1

\* C29: get returns the value of a stored entry whose age is at most its
\* ttl and null otherwise, has returns true for exactly those entries,
\* whether or not cleanup ran before; cleanup removes exactly the entries
\* whose age exceeds their ttl and leaves the others as they were.
C29_LogicalExpiry ==
    [][/\ \A k \in CacheKeys :
            /\ CacheGetCall(k) =>
                  cacheCall'.result = IF Fresh(k) THEN cache[k].value ELSE Null
            /\ CacheHasCall(k) => cacheCall'.result = Bool(Fresh(k))
       /\ CacheCleanupCall =>
            /\ DOMAIN cache' = {k \in DOMAIN cache : Fresh(k)}
            /\ \A k \in DOMAIN cache' : cache'[k] = cache[k]]_vars

\* cleanup swept one expired entry and kept an entry with a hit whose age
\* equals its ttl
C29_Witness ==
    /\ cacheCall.op = "cleanup"
    /\ cacheCall.cleaned = 1
    /\ DOMAIN cache = {"key2"}
    /\ cache["key2"].hits = 1
    /\ now - cache["key2"].timestamp = cache["key2"].ttl

\* The stage the call is suspended on is propIncludes, propIncludesLowercase
\* or matchProp with a name and a valid pattern, run on a single value.
FiltersSingle(i) ==
    /\ AtStage(i)
    /\ A.commands[i].type = "function"
    /\ A.commands[i].name \in {"propIncludes", "propIncludesLowercase", "matchProp"}
    /\ filterValidate(A.commands[i].args)
    /\ RegexValid(A.commands[i].args[2].s)
    /\ ~IsArray(A.value)
    /\ ~IsNullish(A.value)

\* The named property of the value is a string.
HasText(v, command) ==
    /\ IsObject(v)
    /\ HasProp(v, command.args[1].s)
    /\ TypeOf(ReadProp(v, command.args[1].s)) = "string"

\* The named property of the value is a string the predicate accepts.
Satisfies(v, command) ==
    /\ HasText(v, command)
    /\ CASE command.name = "propIncludes" ->
                Includes(ReadProp(v, command.args[1].s).s, command.args[2].s)
         [] command.name = "propIncludesLowercase" ->
                Includes(ToLowerCase(ReadProp(v, command.args[1].s).s),
                         ToLowerCase(command.args[2].s))
         [] OTHER -> RegexTest(command.args[2].s, ReadProp(v, command.args[1].s).s)

\* The stage returned v and recorded nothing.
Yields(v) == ~A.had /\ ~A.pend.thrown /\ A.pend.value = v

\* C31 as stated: on a single value the three filters return the value
\* itself with no soft error when its named property satisfies the
\* predicate, and otherwise (no match, property missing, property not a
\* string) record a soft error and yield null, the default or a throw.
C31_NonMatchIsAnError ==
    \A i \in 1..Len(A.commands) :
        FiltersSingle(i) =>
            IF Satisfies(A.value, A.commands[i]) THEN Yields(A.value) ELSE StageFaulted

\* The stage the call is suspended on is a CSS query run on a node or on a
\* collection of nodes.
QueriesNodes(i) ==
    /\ AtStage(i)
    /\ A.commands[i].type = "css-selector"
    /\ \/ IsNode(A.value)
       \/ IsArray(A.value) /\ \A k \in 1..Len(A.value.items) : IsNode(A.value.items[k])

\* The matching descendants of the node, or of all members of the
\* collection, one after the other.
Matched(v, query) ==
    IF IsNode(v) THEN QuerySelectorAll(v, query)
    ELSE Flatten([k \in 1..Len(v.items) |-> QuerySelectorAll(v.items[k], query)])

\* C32: a CSS query on a node or on a collection of nodes returns the
\* single node when exactly one descendant matched in total, the collection
\* of the matches when more than one matched, and null when none matched,
\* and records no soft error.
C32_ResultShape ==
    \A i \in 1..Len(A.commands) :
        QueriesNodes(i) =>
            LET found == Matched(A.value, A.commands[i].selector)
            IN  Yields(CASE Len(found) = 0 -> Null
                         [] Len(found) = 1 -> found[1]
                         [] OTHER -> Arr(found))

(***************************************************************************)
(* Calls on several root nodes: between two execute calls of one instance  *)
(* the caller may pass another root node (a scraper walking over the       *)
(* items of a list), with caching enabled.                                 *)
(***************************************************************************)
RootNodes == {El("li1"), El("li2"), El("list"), Doc}

RootSelectors ==
    {[kind |-> "pipeline", commands |-> p] :
        p \in {<<Prop("textContent")>>, <<Prop("textContent"), Fn("trim", <<>>)>>,
               <<Css("li")>>}}

\* The next execute call is passed another root node.
ChooseRoot ==
    /\ calls < MaxCalls
    /\ \E node \in RootNodes \ {root} : root' = node
    /\ UNCHANGED <<selector, config, registry, plugins, cache, now, executionDepth, run, events,
                   calls, log>>
    /\ UNCHANGED ext

RootInit ==
    /\ selector \in RootSelectors
    /\ root \in RootNodes
    /\ config \in Configs
    /\ config.maxDepth = MaxDepthDefault
    /\ config.cacheEnabled
    /\ Constructed
    /\ parser = NoParser
    /\ cacheCall = NoCacheCall

RootNext ==
    \/ Execute("A")
    \/ Resume("A")
    \/ Settle("A")
    \/ Tick
    \/ ChooseRoot

RootSpec == RootInit /\ [][RootNext]_vars

DepthSelectors ==
    {[kind |-> "pipeline", commands |-> p] :
        p \in {<<Css("li")>>, <<Css("li"), Prop("textContent")>>,
               <<Css("ul"), Prop("textContent"), Fn("trim", <<>>)>>}}

\* The next execute call is passed another selector.
ChooseSelector ==
    /\ calls < MaxCalls
    /\ \E s \in DepthSelectors \ {selector} : selector' = s
    /\ UNCHANGED <<root, config, registry, plugins, cache, now, executionDepth, run, events,
                   calls, log>>
    /\ UNCHANGED ext

DepthInit ==
    /\ selector \in DepthSelectors
    /\ root = Doc
    /\ config \in [errorHandling : Modes, defaultValue : {DefaultValue}, cacheEnabled : {FALSE},
                   cacheTTL : {TTL}, maxDepth : {0, 1}]
    /\ Constructed
    /\ parser = NoParser
    /\ cacheCall = NoCacheCall

DepthNext ==
    \/ Execute("A")
    \/ Resume("A")
    \/ Settle("A")
    \/ Execute("B")
    \/ Resume("B")
    \/ Settle("B")
    \/ ChooseSelector

DepthSpec == DepthInit /\ [][DepthNext]_vars

\* C35: with maxDepth >= 0 no call fails with "Maximum execution depth
\* exceeded", however long its pipeline and however many other calls are in
\* flight, and two returned calls of one pipeline on one root have the same
\* result, whatever ran beside them.
C35_DepthGuardBoundsRecursionOnly ==
    /\ \A j \in 1..Len(log) : log[j].result.error.kind # "max-depth-exceeded"
    /\ \A c, d \in Callers :
          /\ run[c].pc = "done" /\ run[d].pc = "done"
          /\ run[c].commands = run[d].commands
          /\ run[c].element = run[d].element
          => run[c].result = run[d].result

(***************************************************************************)
(* Loading and unloading: the plugins Q, Stuck and Over are loaded and     *)
(* unloaded between the execute calls of one instance.                     *)
(***************************************************************************)
UnloadIds == {"Q", "Stuck", "Over"}

UnloadInit ==
    /\ selector \in PluginSelectors
    /\ root = El("li2")
    /\ config \in Configs
    /\ config.maxDepth = MaxDepthDefault
    /\ ~config.cacheEnabled
    /\ Constructed
    /\ parser = NoParser
    /\ cacheCall = NoCacheCall

UnloadNext ==
    \/ Execute("A")
    \/ Resume("A")
    \/ Settle("A")
    \/ \E id \in UnloadIds : LoadPluginOf(id)
    \/ \E name \in UnloadIds : UnloadPlugin(name)

UnloadSpec == UnloadInit /\ [][UnloadNext]_vars

\* C36: when unloadPlugin returns false the loaded plugins and the registry
\* are as they were before the call, and every plugin listed as loaded has
\* all its commands registered.
C36_UnloadAllOrNothing ==
    /\ [][\A name \in UnloadIds :
            UnloadPlugin(name) /\ lastCall'.ended = "false" =>
                /\ getLoadedPlugins' = getLoadedPlugins
                /\ registry' = registry]_vars
    /\ [](\A id \in plugins : DOMAIN PluginOf(id).commands \subseteq getAvailableCommands)

\* C37: when loadPlugin has stored a plugin, unregistering the plugin's
\* commands, as the unloadPlugin that follows does, gives back the registry
\* as it was before the load, also when a command of the plugin is named
\* like a command that was registered already.
C37_RoundTripRestoresRegistry ==
    [][\A id \in UnloadIds :
          /\ LoadPluginOf(id)
          /\ PluginOf(id).name \notin getLoadedPlugins
          /\ lastCall'.ended = "returned"
          => Unregister(registry', DOMAIN PluginOf(id).commands) = registry]_vars

\* C38: once unloadPlugin has returned true for a plugin, the listeners
\* loadPlugin attached for its hooks are gone, and no execution that emits
\* an event afterwards reaches a hook of a plugin that is not loaded.
C38_NoHookAfterUnload ==
    /\ [](lastCall.op = "unloadPlugin" /\ lastCall.ended = "true" =>
            lastCall.plugin \notin hooks)
    /\ [][(\E c \in Callers : events'[c] # events[c] /\ events'[c] # <<>>) =>
            \A id \in hooks : PluginOf(id).name \in getLoadedPlugins]_vars

\* C39: every result execute returns has success = true exactly when it
\* carries no error, and every result with success = false carries an
\* error with a code, whichever path produced it (a soft error, a throw, a
\* rejected selector, a missing selector, a cache hit).
C39_SuccessIffNoError ==
    \A j \in 1..Len(log) :
        /\ log[j].result.success <=> log[j].result.error = NoError
        /\ ~log[j].result.success => log[j].result.error.code # ""

\* A call in return-default mode ended with a soft error: success = false,
\* the default as value and the soft error, with its code, as error.
C39_Witness ==
    /\ Len(log) >= 1
    /\ log[1].config.errorHandling = "return-default"
    /\ ~log[1].result.success
    /\ log[1].result.value = DefaultValue
    /\ log[1].result.error.code = "EXECUTION_ERROR"
    /\ log[1].result.error.kind = "property-missing"

\* C40: the commandsExecuted of a returned result is the number of stages
\* that ran in that call, one command:executed event each: 0 on a cache hit
\* and for a rejected selector, the length of the pipeline when it
\* completed, the number of stages completed before it when a stage threw.
C40_CommandsExecutedCountsStages ==
    A.pc = "done" =>
        /\ A.result.commandsExecuted = CountExecuted("A")
        /\ A.result.cacheHit => A.result.commandsExecuted = 0
        /\ LastEvent("A") = "execution:complete" =>
              A.result.commandsExecuted = Len(A.commands)

====
